---- MODULE Spec2Model ----
(***************************************************************************)
(* Two-team gold-carrying grid world: the simulation controller and board  *)
(* (src/core), the delayed message bus (src/core/message_handler.py), the  *)
(* per-agent Paxos handler (src/paxos/handler.py) and the agent state      *)
(* machine (src/robot.py).                                                 *)
(***************************************************************************)
EXTENDS Integers, Sequences, FiniteSets, TLC

\* ------------------------------------------------------------------ bounds
\* Board.__init__ builds a 20 x 20 grid; the model keeps the grid small.
BoardSize == 3
\* Steps a controller run is followed for.
MaxSteps == 2
\* Gold bars Board.__init__ scatters (total_gold_count).
MaxGold == 2

\* Steps of a run on the contested tile
ContestSteps == 1

\* ------------------------------------------------------------------ values
\* Python's None (robot ids, counters and steps are never negative).
None == -1
NoPos == <<-1, -1>>
NoDir == "NoDir"

\* `if x:` on an `int | None`: None and 0 are both falsy.
Truthy(x) == x # None /\ x # 0

Directions == {"NORTH", "SOUTH", "EAST", "WEST"}

\* Direction.value
DirValue(d) == CASE d = "NORTH" -> 0 [] d = "SOUTH" -> 1 [] d = "EAST" -> 2 [] d = "WEST" -> 3

\* Board.tiles.shape: rows (y) and columns (x)
BoardW == BoardSize

BoardH == BoardSize

Positions == {<<x, y>> : x \in 0..(BoardW - 1), y \in 0..(BoardH - 1)}

Abs(n) == IF n < 0 THEN -n ELSE n

Min2(a, b) == IF a < b THEN a ELSE b

Max2(a, b) == IF a > b THEN a ELSE b

manhattan_distance(start_tile, end_tile) ==
    Abs(end_tile[1] - start_tile[1]) + Abs(end_tile[2] - start_tile[2])

get_pos_to_add(d) ==
    CASE d = "NORTH" -> <<0, -1>>
      [] d = "SOUTH" -> <<0, 1>>
      [] d = "EAST"  -> <<1, 0>>
      [] d = "WEST"  -> <<-1, 0>>

\* ------------------------------------------------------------------ state
VARIABLES
    step_count,       \* SimulationController.step_count
    run_steps,        \* the number of times the driver calls step (main.py's range)
    team,             \* robot id -> TeamInfo.team; its domain is the robot list
    pos,              \* robot id -> BaseRobot.pos
    direction,        \* robot id -> BaseRobot.direction
    partner_id,       \* robot id -> BaseRobot.partner_id (None when unset)
    tiles,            \* Board.tiles: position -> tile
    robot_locations,  \* Board.robot_locations: position key -> set of robot ids
    red_deposit_pos,  \* Board.red_deposit_pos
    blue_deposit_pos, \* Board.blue_deposit_pos
    initial_gold,     \* the total_gold_count Board.__init__ was given
    err,              \* the exception that ended the run, "none" while it runs
    phase,            \* the call of SimulationController.step that runs next
    next_robot,       \* collect_actions: the robot whose turn it is to decide
    step_actions,     \* step: its `actions`, then its `validated_actions`
    step_messages,    \* step: its `messages`, the list collect_messages returned
    messages,         \* MessageHandler.messages: delivery step -> message items
    incomming_messages, \* robot id -> BaseRobot.incomming_messages
    outgoing_messages,  \* robot id -> BaseRobot.outgoing_messages
    robot             \* robot id -> the fields Robot adds to BaseRobot

boardVars == <<team, pos, direction, partner_id, tiles, robot_locations,
               red_deposit_pos, blue_deposit_pos, initial_gold>>

stepVars == <<phase, next_robot, step_actions, step_messages>>

agentVars == <<messages, incomming_messages, outgoing_messages, robot>>

vars == <<step_count, run_steps, boardVars, err, stepVars, agentVars>>

Robots == DOMAIN team

\* ------------------------------------------------------------------ tiles
BaseTile(n) == [type |-> "BaseTile", team |-> "none", gold_count |-> n]

DepositTile(t) == [type |-> "DepositTile", team |-> t, gold_count |-> 0]

\* The controller's view of the mutable world, threaded through one step.
World ==
    [pos |-> pos, direction |-> direction, partner_id |-> partner_id,
     tiles |-> tiles, robot_locations |-> robot_locations, err |-> err]

Raise(w, e) == [w EXCEPT !.err = e]

\* BaseTile.take / DepositTile.take on the tile at p
TileTake(w, p) ==
    IF w.tiles[p].type = "DepositTile" THEN Raise(w, "NotImplementedError")
    ELSE IF w.tiles[p].gold_count = 0 THEN Raise(w, "ValueError")
    ELSE [w EXCEPT !.tiles[p].gold_count = @ - 1]

\* BaseTile.add / DepositTile.add on the tile at p
TileAdd(w, p) ==
    IF w.tiles[p].type = "DepositTile" THEN Raise(w, "NotImplementedError")
    ELSE [w EXCEPT !.tiles[p].gold_count = @ + 1]

\* DepositTile.deposit crediting two gold for one delivery
TileDeposit_by_two(w, p) == [w EXCEPT !.tiles[p].gold_count = @ + 2]

\* DepositTile.deposit on the tile at p
TileDeposit(w, p) == [w EXCEPT !.tiles[p].gold_count = @ + 1]

is_valid_position(p) ==
    0 <= p[2] /\ p[2] < BoardH /\ 0 <= p[1] /\ p[1] < BoardW

\* ------------------------------------------------------------------ board
\* robot_locations is a defaultdict(set): reading a missing key yields set().
LocGet(locs, p) == IF p \in DOMAIN locs THEN locs[p] ELSE {}

LocPut(locs, p, s) == [q \in (DOMAIN locs) \cup {p} |-> IF q = p THEN s ELSE locs[q]]

LocDel(locs, p) == [q \in (DOMAIN locs) \ {p} |-> locs[q]]

add_robot(w, r, p) ==
    [w EXCEPT !.robot_locations = LocPut(@, p, LocGet(@, p) \cup {r}),
              !.pos[r] = p]

\* move_robot forgetting to take the robot out of its old key
move_robot_keeps_old_key(w, r, new_pos) == add_robot(w, r, new_pos)

move_robot(w, r, new_pos) ==
    LET old == w.pos[r]
        removed == LocPut(w.robot_locations, old, LocGet(w.robot_locations, old) \ {r})
        cleaned == IF removed[old] = {} THEN LocDel(removed, old) ELSE removed
    IN  add_robot([w EXCEPT !.robot_locations = cleaned], r, new_pos)

\* ------------------------------------------------------------------ actions
WaitAction(r) == [type |-> "WaitAction", robot_id |-> r, new_direction |-> NoDir, pos |-> NoPos]

TurnAction(r, d) == [type |-> "TurnAction", robot_id |-> r, new_direction |-> d, pos |-> NoPos]

MoveAction(r) == [type |-> "MoveAction", robot_id |-> r, new_direction |-> NoDir, pos |-> NoPos]

PickupAction(r, p) == [type |-> "PickupAction", robot_id |-> r, new_direction |-> NoDir, pos |-> p]

_get_new_pos(w, action) ==
    LET r == action.robot_id
        pos_to_add == get_pos_to_add(w.direction[r])
    IN  <<w.pos[r][1] + pos_to_add[1], w.pos[r][2] + pos_to_add[2]>>

\* _is_valid_move_action without the bounds check
_is_valid_move_action_unchecked(w, action) == TRUE

_is_valid_move_action(w, action) == is_valid_position(_get_new_pos(w, action))

\* ------------------------------------------------------------------ sequences
RECURSIVE SeqToUniq(_, _)
\* The keys of a dict filled in the order of `keys`: first occurrences, in order.
SeqToUniq(keys, seen) ==
    IF keys = <<>> THEN <<>>
    ELSE IF Head(keys) \in seen THEN SeqToUniq(Tail(keys), seen)
    ELSE <<Head(keys)>> \o SeqToUniq(Tail(keys), seen \cup {Head(keys)})

RECURSIVE MapSeqField(_, _)
MapSeqField(s, f) ==
    IF s = <<>> THEN <<>> ELSE <<Head(s)[f]>> \o MapSeqField(Tail(s), f)

\* ------------------------------------------------------------------ controller
\* pickup_gold pairing the robots without taking the gold off the tile
pickup_gold_without_take(w, robot_1, robot_2) ==
    IF Truthy(w.partner_id[robot_1]) \/ Truthy(w.partner_id[robot_2])
    THEN Raise(w, "ValueError")
    ELSE [w EXCEPT !.partner_id[robot_1] = robot_2, !.partner_id[robot_2] = robot_1]

pickup_gold(w, robot_1, robot_2) ==
    IF Truthy(w.partner_id[robot_1]) \/ Truthy(w.partner_id[robot_2])
    THEN Raise(w, "ValueError")
    ELSE TileTake([w EXCEPT !.partner_id[robot_1] = robot_2,
                            !.partner_id[robot_2] = robot_1],
                  w.pos[robot_1])

\* drop_gold dissolving the pair without putting the gold on the tile
drop_gold_without_add(w, robot_1, robot_2) ==
    IF w.partner_id[robot_1] # robot_2 \/ w.partner_id[robot_2] # robot_1
    THEN Raise(w, "ValueError")
    ELSE [w EXCEPT !.partner_id[robot_1] = None, !.partner_id[robot_2] = None]

drop_gold(w, robot_1, robot_2) ==
    IF w.partner_id[robot_1] # robot_2 \/ w.partner_id[robot_2] # robot_1
    THEN Raise(w, "ValueError")
    ELSE TileAdd([w EXCEPT !.partner_id[robot_1] = None,
                           !.partner_id[robot_2] = None],
                 w.pos[robot_1])

\* validate_pickup_actions content with two or more requesters of a team
PickupsAcceptedAt_two_or_more(w, p, actions) ==
    LET IsRed(a) == team[a.robot_id] = "RED"
        IsBlue(a) == team[a.robot_id] # "RED"
        red_team_actions == SelectSeq(actions, IsRed)
        blue_team_actions == SelectSeq(actions, IsBlue)
        gold_count == w.tiles[p].gold_count
    IN  IF Len(red_team_actions) >= 2 /\ Len(blue_team_actions) >= 2 /\ gold_count >= 2
        THEN actions
        ELSE IF Len(red_team_actions) >= 2 /\ gold_count >= 1 THEN red_team_actions
        ELSE IF Len(blue_team_actions) >= 2 /\ gold_count >= 1 THEN blue_team_actions
        ELSE <<>>

\* The pickups accepted at one position (the body of validate_pickup_actions' loop).
PickupsAcceptedAt(w, p, actions) ==
    LET IsRed(a) == team[a.robot_id] = "RED"
        IsBlue(a) == team[a.robot_id] # "RED"
        red_team_actions == SelectSeq(actions, IsRed)
        blue_team_actions == SelectSeq(actions, IsBlue)
        gold_count == w.tiles[p].gold_count
    IN  IF Len(red_team_actions) = 2 /\ Len(blue_team_actions) = 2 /\ gold_count >= 2
        THEN actions
        ELSE IF Len(red_team_actions) = 2 /\ gold_count >= 1 THEN red_team_actions
        ELSE IF Len(blue_team_actions) = 2 /\ gold_count >= 1 THEN blue_team_actions
        ELSE <<>>

RECURSIVE ValidatePickupKeys(_, _, _)
ValidatePickupKeys(w, keys, pickups) ==
    IF keys = <<>> THEN <<>>
    ELSE LET p == Head(keys)
             At(a) == a.pos = p
         IN  PickupsAcceptedAt(w, p, SelectSeq(pickups, At))
                 \o ValidatePickupKeys(w, Tail(keys), pickups)

\* actions_map is the dict resolve_conflicts fills: `pickups` in arrival order.
validate_pickup_actions(w, pickups) ==
    ValidatePickupKeys(w, SeqToUniq(MapSeqField(pickups, "pos"), {}), pickups)

\* sorted([robot_id, partner_id]) as resolve_conflicts keys a partnered action
PairKey(w, a) ==
    <<Min2(a.robot_id, w.partner_id[a.robot_id]), Max2(a.robot_id, w.partner_id[a.robot_id])>>

RECURSIVE MapPairKey(_, _)
MapPairKey(w, s) ==
    IF s = <<>> THEN <<>> ELSE <<PairKey(w, Head(s))>> \o MapPairKey(w, Tail(s))

\* validate_paired_actions letting a pair keep its gold whatever the two do
ValidatePair_never_drops(w, key, actions) ==
    IF Len(actions) # 2 THEN [w |-> Raise(w, "ValueError"), valid |-> <<>>]
    ELSE
    LET Passes(a) == a.type # "MoveAction" \/ _is_valid_move_action(w, a)
    IN  IF actions[1].type = "PickupAction" \/ actions[2].type = "PickupAction"
        THEN [w |-> w, valid |-> <<>>]
        ELSE [w |-> w, valid |-> SelectSeq(actions, Passes)]

\* validate_paired_actions dropping only the Pickup of a pair and letting the
\* partner's action through
ValidatePair_drops_only_pickups(w, key, actions) ==
    IF Len(actions) # 2 THEN [w |-> Raise(w, "ValueError"), valid |-> <<>>]
    ELSE
    LET NoPickup(a) == a.type # "PickupAction"
        Passes(a) == a.type # "MoveAction" \/ _is_valid_move_action(w, a)
    IN  IF actions[1].type = "PickupAction" \/ actions[2].type = "PickupAction"
        THEN [w |-> w, valid |-> SelectSeq(SelectSeq(actions, NoPickup), Passes)]
        ELSE ValidatePair_never_drops(w, key, actions)

\* One iteration of validate_paired_actions' loop: the world after it and the
\* actions it lets through.
ValidatePair(w, key, actions) ==
    IF Len(actions) # 2 THEN [w |-> Raise(w, "ValueError"), valid |-> <<>>]
    ELSE
    LET action_1 == actions[1]
        action_2 == actions[2]
        any_pickup_action == action_1.type = "PickupAction" \/ action_2.type = "PickupAction"
        is_same_action == action_1.type = action_2.type
        is_move_actions == action_1.type = "MoveAction" /\ action_2.type = "MoveAction"
        is_same_direction == w.direction[key[1]] = w.direction[key[2]]
        Passes(a) == a.type # "MoveAction" \/ _is_valid_move_action(w, a)
    IN  IF any_pickup_action THEN [w |-> w, valid |-> <<>>]
        ELSE LET w1 == IF ~is_same_action \/ (is_move_actions /\ ~is_same_direction)
                       THEN drop_gold(w, key[1], key[2])
                       ELSE w
             IN  IF w1.err # "none" THEN [w |-> w1, valid |-> <<>>]
                 ELSE [w |-> w1, valid |-> SelectSeq(actions, Passes)]

RECURSIVE ValidatePairKeys(_, _, _, _)
\* w0 is the world when resolve_conflicts grouped the actions (the keys and the
\* groups are fixed then); w is the world as the loop has changed it so far.
ValidatePairKeys(w0, w, keys, paired) ==
    IF keys = <<>> \/ w.err # "none" THEN [w |-> w, valid |-> <<>>]
    ELSE LET key == Head(keys)
             Of(a) == PairKey(w0, a) = key
             one == ValidatePair(w, key, SelectSeq(paired, Of))
             rest == ValidatePairKeys(w0, one.w, Tail(keys), paired)
         IN  [w |-> rest.w, valid |-> one.valid \o rest.valid]

validate_paired_actions(w, paired) ==
    ValidatePairKeys(w, w, SeqToUniq(MapPairKey(w, paired), {}), paired)

resolve_conflicts(w, actions) ==
    LET IsPaired(a) == w.partner_id[a.robot_id] # None
        IsMove(a) == ~IsPaired(a) /\ a.type = "MoveAction" /\ _is_valid_move_action(w, a)
        IsPickup(a) == ~IsPaired(a) /\ a.type = "PickupAction"
        IsOther(a) == ~IsPaired(a) /\ a.type \notin {"MoveAction", "PickupAction"}
        other_actions == SelectSeq(actions, IsOther)
        valid_move_actions == SelectSeq(actions, IsMove)
        valid_pickup_actions == validate_pickup_actions(w, SelectSeq(actions, IsPickup))
        paired == validate_paired_actions(w, SelectSeq(actions, IsPaired))
    IN  [w |-> paired.w,
         valid |-> other_actions \o valid_move_actions \o valid_pickup_actions \o paired.valid]

\* One iteration of execute_actions' loop; pending is its pickup_actions dict.
ExecuteOne(w, pending, action) ==
    LET r == action.robot_id IN
    CASE action.type = "TurnAction" ->
            [w |-> [w EXCEPT !.direction[r] = action.new_direction], pending |-> pending]
      [] action.type = "MoveAction" ->
            [w |-> move_robot(w, r, _get_new_pos(w, action)), pending |-> pending]
      [] action.type = "PickupAction" ->
            LET at == Append(pending[action.pos], action) IN
            IF Len(at) = 2
            THEN [w |-> pickup_gold(w, at[1].robot_id, at[2].robot_id),
                  pending |-> [pending EXCEPT ![action.pos] = <<>>]]
            ELSE [w |-> w, pending |-> [pending EXCEPT ![action.pos] = at]]
      [] OTHER -> [w |-> w, pending |-> pending]

RECURSIVE ExecuteLoop(_, _, _)
ExecuteLoop(w, pending, actions) ==
    IF actions = <<>> \/ w.err # "none" THEN w
    ELSE LET one == ExecuteOne(w, pending, Head(actions))
         IN  ExecuteLoop(one.w, one.pending, Tail(actions))

execute_actions(w, actions) ==
    ExecuteLoop(w, [p \in Positions |-> <<>>], actions)

RECURSIVE DepositLoop_per_member(_, _, _)
\* handle_gold_deposit crediting the deposit once for each member of a pair
DepositLoop_per_member(w, r, processed_robots) ==
    IF r \notin Robots \/ w.err # "none" THEN w
    ELSE IF w.partner_id[r] = None
    THEN DepositLoop_per_member(w, r + 1, processed_robots)
    ELSE LET partner == w.partner_id[r]
             tile == w.tiles[w.pos[r]]
         IN  IF w.pos[r] # w.pos[partner] THEN Raise(w, "RuntimeError")
             ELSE IF tile.type = "DepositTile" /\ tile.team = team[r]
             THEN DepositLoop_per_member(
                      TileDeposit([w EXCEPT !.partner_id[r] = None,
                                            !.partner_id[partner] =
                                                IF partner < r THEN None ELSE @],
                                  w.pos[r]),
                      r + 1, processed_robots)
             ELSE DepositLoop_per_member(w, r + 1, processed_robots)

RECURSIVE DepositLoop(_, _, _)
DepositLoop(w, r, processed_robots) ==
    IF r \notin Robots \/ w.err # "none" THEN w
    ELSE IF w.partner_id[r] = None \/ r \in processed_robots
    THEN DepositLoop(w, r + 1, processed_robots)
    ELSE LET partner == w.partner_id[r]
             tile == w.tiles[w.pos[r]]
         IN  IF w.pos[r] # w.pos[partner] THEN Raise(w, "RuntimeError")
             ELSE IF tile.type = "DepositTile" /\ tile.team = team[r]
             THEN DepositLoop(
                      TileDeposit([w EXCEPT !.partner_id[r] = None,
                                            !.partner_id[partner] = None],
                                  w.pos[r]),
                      r + 1, processed_robots \cup {r, partner})
             ELSE DepositLoop(w, r + 1, processed_robots)

handle_gold_deposit(w) == DepositLoop(w, 0, {})

\* step() up to the call of handle_gold_deposit: the world execute_actions
\* leaves behind (or the one an exception left).
BeforeDeposit(w, actions) ==
    LET resolved == resolve_conflicts(w, actions) IN
    IF resolved.w.err # "none" THEN resolved.w
    ELSE execute_actions(resolved.w, resolved.valid)

\* resolve_conflicts, execute_actions and handle_gold_deposit as step() runs them
\* on the collected actions; an exception leaves the world as it was when raised.
RunActions(w, actions) ==
    LET resolved == resolve_conflicts(w, actions) IN
    IF resolved.w.err # "none" THEN resolved.w
    ELSE LET executed == execute_actions(resolved.w, resolved.valid) IN
         IF executed.err # "none" THEN executed
         ELSE handle_gold_deposit(executed)

\* ------------------------------------------------------------------ set-up
RECURSIVE SumOver(_, _)
\* The sum of f[x] over the x in S.
SumOver(f, S) ==
    IF S = {} THEN 0
    ELSE LET x == CHOOSE y \in S : TRUE IN f[x] + SumOver(f, S \ {x})

\* Board.__init__: the two deposit tiles; g gives the gold bars of the plain tiles.
BoardTiles(g, red_pos, blue_pos) ==
    [p \in Positions |->
        IF p = blue_pos THEN DepositTile("BLUE")
        ELSE IF p = red_pos THEN DepositTile("RED")
        ELSE BaseTile(g[p])]

\* SimulationController.__init__: add_robot for every robot, in list order.
InitialLocations(where) ==
    [p \in {where[r] : r \in DOMAIN where} |-> {r \in DOMAIN where : where[r] = p}]

\* ------------------------------------------------------------------ controller runs
\* A controller run with arbitrary BaseRobot agents: two red robots and a blue
\* one; all the gold lies on SimGoldPos, where the red robots start, one move
\* away from their deposit tile; the blue deposit tile is in the far corner or
\* next to the gold, in the way of a red pair walking south. The red robots
\* start facing their deposit tile, the blue one or the grid's edge.
SimTeam == <<"RED", "RED", "BLUE">>

SimRobots == 0..(Len(SimTeam) - 1)

SimGoldPos == <<1, 0>>

SimInit ==
    /\ step_count = 0
    /\ run_steps = MaxSteps
    /\ err = "none"
    /\ team = [r \in SimRobots |-> SimTeam[r + 1]]
    /\ red_deposit_pos = <<0, 0>>
    /\ blue_deposit_pos \in {<<BoardW - 1, BoardH - 1>>, <<SimGoldPos[1], SimGoldPos[2] + 1>>}
    /\ initial_gold \in 1..MaxGold
    /\ tiles = BoardTiles([p \in Positions |-> IF p = SimGoldPos THEN initial_gold ELSE 0],
                          red_deposit_pos, blue_deposit_pos)
    /\ \E blue_at \in {p \in Positions : p[1] = SimGoldPos[1]} :
          pos = [r \in SimRobots |-> IF SimTeam[r + 1] = "RED" THEN SimGoldPos ELSE blue_at]
    /\ \E red_facing \in {"WEST", "SOUTH", "NORTH"} :
          direction = [r \in SimRobots |->
                          IF SimTeam[r + 1] = "RED" THEN red_facing ELSE "NORTH"]
    /\ partner_id = [r \in SimRobots |-> None]
    /\ robot_locations = InitialLocations(pos)
    /\ phase = "deliver"
    /\ next_robot = 0
    /\ step_actions = <<>>
    /\ step_messages = <<>>
    /\ messages = <<>>
    /\ incomming_messages = [r \in SimRobots |-> <<>>]
    /\ outgoing_messages = [r \in SimRobots |-> <<>>]
    /\ robot = [r \in SimRobots |-> "BaseRobot"]

\* What a BaseRobot.decide_action may return for robot r: any action variant,
\* a pickup naming the tile the robot stands on.
ActionChoices(r) ==
    {WaitAction(r), MoveAction(r), PickupAction(r, pos[r])}
        \cup {TurnAction(r, d) : d \in Directions}

\* SimulationController.step with no messages in flight, on the actions that
\* collect_actions gathered in robot order: resolve_conflicts, execute_actions,
\* handle_gold_deposit, step_count += 1.
StepWith(actions) ==
    /\ \E w \in {RunActions(World, actions)} :
           /\ pos' = w.pos
           /\ direction' = w.direction
           /\ partner_id' = w.partner_id
           /\ tiles' = w.tiles
           /\ robot_locations' = w.robot_locations
           /\ err' = w.err
           /\ step_count' = IF w.err = "none" THEN step_count + 1 ELSE step_count
    /\ UNCHANGED <<team, red_deposit_pos, blue_deposit_pos, initial_gold, run_steps>>
    /\ UNCHANGED <<stepVars, agentVars>>

SimStep ==
    /\ err = "none"
    /\ step_count < MaxSteps
    /\ \E a0 \in ActionChoices(0), a1 \in ActionChoices(1), a2 \in ActionChoices(2) :
          StepWith(<<a0, a1, a2>>)

SimNext == SimStep

SpecSim == SimInit /\ [][SimNext]_vars

RECURSIVE ActionSeqs(_)
\* collect_actions: what the robots from r on may return, in robot order.
ActionSeqs(r) ==
    IF r \notin Robots THEN {<<>>}
    ELSE {<<a>> \o rest : a \in ActionChoices(r), rest \in ActionSeqs(r + 1)}

\* A contested tile: three red and two blue BaseRobot agents (red ids first, as
\* main.py numbers them) all stand on one plain tile that holds 0..MaxGold
\* gold, and the controller runs ContestSteps steps on whatever they return.
ContestTeam == <<"RED", "RED", "RED", "BLUE", "BLUE">>

ContestRobots == 0..(Len(ContestTeam) - 1)

ContestInit ==
    /\ step_count = 0
    /\ run_steps = ContestSteps
    /\ err = "none"
    /\ team = [r \in ContestRobots |-> ContestTeam[r + 1]]
    /\ red_deposit_pos = <<0, 0>>
    /\ blue_deposit_pos = <<BoardW - 1, BoardH - 1>>
    /\ initial_gold \in 0..MaxGold
    /\ tiles = BoardTiles([p \in Positions |-> IF p = SimGoldPos THEN initial_gold ELSE 0],
                          red_deposit_pos, blue_deposit_pos)
    /\ pos = [r \in ContestRobots |-> SimGoldPos]
    /\ direction = [r \in ContestRobots |-> "SOUTH"]
    /\ partner_id = [r \in ContestRobots |-> None]
    /\ robot_locations = InitialLocations(pos)
    /\ phase = "deliver"
    /\ next_robot = 0
    /\ step_actions = <<>>
    /\ step_messages = <<>>
    /\ messages = <<>>
    /\ incomming_messages = [r \in ContestRobots |-> <<>>]
    /\ outgoing_messages = [r \in ContestRobots |-> <<>>]
    /\ robot = [r \in ContestRobots |-> "BaseRobot"]

ContestStep ==
    /\ err = "none"
    /\ step_count < ContestSteps
    /\ \E actions \in ActionSeqs(0) : StepWith(actions)

ContestNext == ContestStep

SpecContest == ContestInit /\ [][ContestNext]_vars

\* ------------------------------------------------------------------ controller claims
\* C1: after every simulation step every agent is in the board's position
\* index under exactly one key, and that key is the agent's pos.
C1_IndexMatchesPos ==
    \A a \in Robots :
        {p \in DOMAIN robot_locations : a \in robot_locations[p]} = {pos[a]}

\* A red robot has moved off the tile it started on.
C1_Witness ==
    /\ step_count > 0
    /\ \E a \in Robots : team[a] = "RED" /\ pos[a] # SimGoldPos

\* C2: after every simulation step, an agent a whose partner_id is b is b's
\* partner, stands where b stands and is of b's team.
C2_PartnersMutualTogetherSameTeam ==
    \A a \in Robots :
        partner_id[a] # None =>
            /\ partner_id[a] \in Robots
            /\ partner_id[partner_id[a]] = a
            /\ pos[partner_id[a]] = pos[a]
            /\ team[partner_id[a]] = team[a]

\* A pair has formed and has moved together off the tile of the pickup.
C2_Witness ==
    \E a \in Robots : partner_id[a] # None /\ pos[a] # SimGoldPos

PlainPositions == {p \in Positions : tiles[p].type = "BaseTile"}

GoldOnPlainTiles == SumOver([p \in Positions |-> tiles[p].gold_count], PlainPositions)

\* Each partnership has two members, each naming the other.
ActivePartnerships == Cardinality({a \in Robots : partner_id[a] # None}) \div 2

\* C3: after every completed simulation step the gold on the plain tiles, one
\* gold per active partnership and the two deposit counters add up to the
\* gold the board was set up with.
C3_GoldConserved ==
    err = "none" =>
        GoldOnPlainTiles + ActivePartnerships
            + tiles[red_deposit_pos].gold_count + tiles[blue_deposit_pos].gold_count
          = initial_gold

\* A pair has delivered: the red deposit counter is positive.
C3_Witness == err = "none" /\ tiles[red_deposit_pos].gold_count > 0

\* The unpartnered agents of team t whose collected action is Pickup(p).
Requesters(actions, t, p) ==
    {r \in Robots : /\ team[r] = t
                    /\ partner_id[r] = None
                    /\ actions[r + 1] = PickupAction(r, p)}

\* The requesters the step leaves partnered.
Formed(w, actions, t, p) == {r \in Requesters(actions, t, p) : w.partner_id[r] # None}

\* C11: whatever the agents on a contested tile return, a team forms a pair at
\* tile p in the step only if exactly two of its unpartnered agents requested
\* Pickup(p) and the tile held gold, and then these two are each other's
\* partner; nobody who did not request a pickup becomes partnered (so with one,
\* three or more requesters the team gets no pair), and the tile loses one gold
\* per team that formed a pair on it, no more (counted from what
\* resolve_conflicts leaves on the tile, which has the gold that pairs breaking
\* up in the same step dropped; a deposit tile's count is the deliveries).
C11_PairNeedsExactlyTwoRequesters ==
    (err = "none" /\ step_count < ContestSteps) =>
        \A actions \in ActionSeqs(0) :
            \A w \in {RunActions(World, actions)} :
            /\ w.err = "none"
            /\ \A r \in Robots :
                   (partner_id[r] = None /\ w.partner_id[r] # None) =>
                       actions[r + 1] = PickupAction(r, pos[r])
            /\ \A p \in Positions :
                   /\ \A t \in {"RED", "BLUE"} :
                          Formed(w, actions, t, p) # {} =>
                              /\ Cardinality(Requesters(actions, t, p)) = 2
                              /\ tiles[p].gold_count >= 1
                              /\ \A r \in Requesters(actions, t, p) :
                                     w.partner_id[r] \in Requesters(actions, t, p) \ {r}
                   /\ tiles[p].type # "DepositTile" =>
                          w.tiles[p].gold_count =
                              resolve_conflicts(World, actions).w.tiles[p].gold_count
                              - Cardinality({t \in {"RED", "BLUE"} :
                                                Formed(w, actions, t, p) # {}})

\* Two red agents have paired on the contested tile and took one gold, the
\* third red agent stayed alone.
C11_Witness ==
    /\ Cardinality(Robots) = Len(ContestTeam)
    /\ step_count = 1
    /\ partner_id[0] = 1 /\ partner_id[1] = 0 /\ partner_id[2] = None
    /\ tiles[SimGoldPos].gold_count = initial_gold - 1

\* The keys of the board's position index that list robot r.
IndexKeysOf(w, r) == {p \in DOMAIN w.robot_locations : r \in w.robot_locations[p]}

\* Robot r's collected action is a Move that leaves the grid.
MovesOffGrid(actions, r) ==
    /\ actions[r + 1].type = "MoveAction"
    /\ ~is_valid_position(_get_new_pos(World, actions[r + 1]))

PairsOf(w) == {ab \in Robots \X Robots : ab[1] < ab[2] /\ w.partner_id[ab[1]] = ab[2]}

Pairs == PairsOf(World)

\* The two members' collected actions differ in variant, or both are Move
\* while the members face different ways.
Disagree(actions, a, b) ==
    \/ actions[a + 1].type # actions[b + 1].type
    \/ /\ actions[a + 1].type = "MoveAction"
       /\ actions[b + 1].type = "MoveAction"
       /\ direction[a] # direction[b]

AnyPickup(actions, a, b) ==
    actions[a + 1].type = "PickupAction" \/ actions[b + 1].type = "PickupAction"

\* Robot r's action has taken effect in w, an off-grid Move having none.
TookEffect(w, actions, r) ==
    LET action == actions[r + 1]
        moved == action.type = "MoveAction" /\ is_valid_position(_get_new_pos(World, action))
    IN  /\ w.pos[r] = IF moved THEN _get_new_pos(World, action) ELSE pos[r]
        /\ IndexKeysOf(w, r) = {w.pos[r]}
        /\ w.direction[r] =
               IF action.type = "TurnAction" THEN action.new_direction ELSE direction[r]

\* The pair (a, b) has dropped its gold where it stood and both actions went on.
DroppedAndWentOn(w, actions, a, b) ==
    /\ w.err = "none"
    /\ w.tiles[pos[a]].gold_count = tiles[pos[a]].gold_count + 1
    /\ w.partner_id[a] = None /\ w.partner_id[b] = None
    /\ TookEffect(w, actions, a) /\ TookEffect(w, actions, b)

AtHome(w, ab) ==
    /\ w.tiles[w.pos[ab[1]]].type = "DepositTile"
    /\ w.tiles[w.pos[ab[1]]].team = team[ab[1]]

\* C15: at the end of every step (e is the world execute_actions left, w the
\* one handle_gold_deposit makes of it) every partnership standing on its own
\* team's deposit tile is dissolved and every other one, a pair on the other
\* team's deposit tile included, is left as it was; each tile's counter grows
\* by the number of pairs that came home to it, one per pair, and nothing else
\* changes.
C15_DepositDissolvesPairsAtHome ==
    (err = "none" /\ step_count < MaxSteps) =>
        \A actions \in ActionSeqs(0) :
            \A e \in {BeforeDeposit(World, actions)} : \A w \in {handle_gold_deposit(e)} :
                e.err = "none" =>
                    /\ w = RunActions(World, actions)
                    /\ w.err = "none"
                    /\ \A ab \in PairsOf(e) :
                           IF AtHome(e, ab)
                           THEN w.partner_id[ab[1]] = None /\ w.partner_id[ab[2]] = None
                           ELSE w.partner_id[ab[1]] = ab[2] /\ w.partner_id[ab[2]] = ab[1]
                    /\ \A t \in Positions :
                           w.tiles[t].gold_count = e.tiles[t].gold_count
                               + Cardinality({ab \in PairsOf(e) :
                                                 AtHome(e, ab) /\ e.pos[ab[1]] = t})
                    /\ w.pos = e.pos /\ w.direction = e.direction
                    /\ w.robot_locations = e.robot_locations

\* A pair is one step away from home: some step brings it onto its own
\* deposit tile, where handle_gold_deposit finds it.
C15_Witness ==
    /\ err = "none" /\ step_count < MaxSteps
    /\ Pairs # {}
    /\ \E actions \in ActionSeqs(0) : \E e \in {BeforeDeposit(World, actions)} :
           \E ab \in PairsOf(e) : AtHome(e, ab)

\* The pairs of the current state whose members the step leaves unpartnered and
\* standing together on tile t, the deposit tile of their team.
CameHome(t) ==
    {ab \in Pairs : /\ partner_id'[ab[1]] = None /\ partner_id'[ab[2]] = None
                    /\ pos'[ab[1]] = t /\ pos'[ab[2]] = t
                    /\ tiles[t].team = team[ab[1]]}

\* C16: across any sequence of steps a deposit tile's counter never decreases,
\* and it changes only in the deposit phase. Whatever the agents return,
\* resolve_conflicts and execute_actions leave both counters as they were; and
\* over a whole step a counter grows by exactly one for each pair of the owning
\* team that ends the step dissolved on the tile.
C16_DepositCountersOnlyGrow ==
    /\ []((err = "none" /\ step_count < MaxSteps) =>
            \A actions \in ActionSeqs(0) : \A t \in {red_deposit_pos, blue_deposit_pos} :
                BeforeDeposit(World, actions).tiles[t].gold_count = tiles[t].gold_count)
    /\ [][\A t \in {red_deposit_pos, blue_deposit_pos} :
              /\ tiles'[t].gold_count >= tiles[t].gold_count
              /\ tiles'[t].gold_count = tiles[t].gold_count + Cardinality(CameHome(t))]_vars

\* The red deposit tile has counted a delivery while the pair's tile of origin
\* still holds gold.
C16_Witness ==
    /\ tiles[red_deposit_pos].gold_count = 1
    /\ tiles[SimGoldPos].gold_count = initial_gold - 1
    /\ \A r \in Robots : partner_id[r] = None

\* C12: when exactly two red and exactly two blue unpartnered agents request
\* Pickup on a tile that holds exactly 1 gold, the step creates no partnership
\* and leaves the tile's gold_count at 1.
C12_ContestedSingleGoldGoesToNobody ==
    (err = "none" /\ step_count < ContestSteps) =>
        \A actions \in ActionSeqs(0) : \A p \in Positions :
            ( /\ tiles[p].gold_count = 1
              /\ Cardinality(Requesters(actions, "RED", p)) = 2
              /\ Cardinality(Requesters(actions, "BLUE", p)) = 2 ) =>
                LET w == RunActions(World, actions) IN
                /\ w.partner_id = partner_id
                /\ w.tiles[p].gold_count = 1

\* ------------------------------------------------------------------ messages
\* A proposal id is the pair (proposal_counter, robot_id); NoId stands for None.
NoId == <<-1, -1>>

\* Python's tuple order on proposal ids.
IdLess(a, b) == a[1] < b[1] \/ (a[1] = b[1] /\ a[2] < b[2])

\* Mission(cost, target_tile) and FullMission(cost, target_tile, leader_id,
\* follower_id); a Mission has no leader and no follower. NoMission is None.
Mission(cost, target_tile) ==
    [cost |-> cost, target_tile |-> target_tile, leader_id |-> None, follower_id |-> None]

FullMission(cost, target_tile, leader_id, follower_id) ==
    [cost |-> cost, target_tile |-> target_tile, leader_id |-> leader_id,
     follower_id |-> follower_id]

NoMission == Mission(-1, NoPos)

\* Every message is a Message(sender_id, step, value); the Paxos messages add
\* paxos_id, and PrepareResponse adds follower_bid. kind is the Python class.
Msg(kind, sender_id, step) ==
    [kind |-> kind, sender_id |-> sender_id, step |-> step, paxos_id |-> NoId,
     mission |-> NoMission, follower_bid |-> 0, observations |-> <<>>,
     turn |-> NoDir, consumed |-> NoPos]

NoMsg == Msg("None", None, None)

PrepareRequest(sender_id, step, paxos_id, value) ==
    [Msg("PrepareRequest", sender_id, step) EXCEPT !.paxos_id = paxos_id, !.mission = value]

PrepareResponse(sender_id, step, paxos_id, value, follower_bid) ==
    [Msg("PrepareResponse", sender_id, step) EXCEPT
        !.paxos_id = paxos_id, !.mission = value, !.follower_bid = follower_bid]

AcceptRequest(sender_id, step, paxos_id, value) ==
    [Msg("AcceptRequest", sender_id, step) EXCEPT !.paxos_id = paxos_id, !.mission = value]

AcceptResponse(sender_id, step, paxos_id, value) ==
    [Msg("AcceptResponse", sender_id, step) EXCEPT !.paxos_id = paxos_id, !.mission = value]

ObservationsMessage(sender_id, step, value) ==
    [Msg("ObservationsMessage", sender_id, step) EXCEPT !.observations = value]

TurnMessage(sender_id, step, value) ==
    [Msg("TurnMessage", sender_id, step) EXCEPT !.turn = value]

MissionAbortMessage(sender_id, step) == Msg("MissionAbortMessage", sender_id, step)

MissionCompleteMessage(sender_id, step) == Msg("MissionCompleteMessage", sender_id, step)

GoldConsumedMessage(sender_id, step, value) ==
    [Msg("GoldConsumedMessage", sender_id, step) EXCEPT !.consumed = value]

\* ------------------------------------------------------------------ Paxos handler
PROPOSAL_TIMEOUT == 75

reset_acceptor_state(h) ==
    [h EXCEPT !.promised_id = NoId, !.accepted_id = NoId, !.accepted_value = NoMission]

reset_proposer_state(h) ==
    [h EXCEPT !.is_proposing = FALSE, !.proposal_id = NoId,
              !.proposed_mission = NoMission, !.promises_recieved = <<>>,
              !.acceptance_tally = <<>>, !.consensus_reached = FALSE,
              !.final_value = NoMission]

\* PaxosHandler.__init__
NewPaxosHandler(robot_id, team_size) ==
    reset_proposer_state(reset_acceptor_state(
        [robot_id |-> robot_id, team_size |-> team_size, proposal_counter |-> 0,
         promised_id |-> NoId, accepted_id |-> NoId, accepted_value |-> NoMission,
         is_proposing |-> FALSE, proposal_id |-> NoId, proposed_mission |-> NoMission,
         promises_recieved |-> <<>>, acceptance_tally |-> <<>>,
         consensus_reached |-> FALSE, final_value |-> NoMission]))

\* start_election, _get_next_proposal_id included: the handler and the request
start_election(h, mission, step) ==
    LET h1 == reset_proposer_state(h)
        id == <<h1.proposal_counter + 1, h1.robot_id>>
        h2 == [h1 EXCEPT !.proposal_counter = @ + 1, !.is_proposing = TRUE,
                         !.proposal_id = id, !.proposed_mission = mission]
    IN  [h |-> h2, out |-> PrepareRequest(h.robot_id, step, id, mission)]

\* max(promises, key=lambda p: p.paxos_id or (-1,)): the first of the promises
\* whose key no other promise's key exceeds.
RECURSIVE BestPromise(_, _)
BestPromise(promises, best) ==
    IF promises = <<>> THEN best
    ELSE BestPromise(Tail(promises),
                     IF IdLess(best.paxos_id, Head(promises).paxos_id)
                     THEN Head(promises) ELSE best)

RECURSIVE BestFollower_last_of_least(_, _)
\* The last promise of least bid, where min() returns the first.
BestFollower_last_of_least(promises, best) ==
    IF promises = <<>> THEN best
    ELSE BestFollower_last_of_least(Tail(promises),
                      IF Head(promises).follower_bid <= best.follower_bid
                      THEN Head(promises) ELSE best)

\* min(promises, key=lambda p: p.follower_bid): the first promise of least bid.
RECURSIVE BestFollower(_, _)
BestFollower(promises, best) ==
    IF promises = <<>> THEN best
    ELSE BestFollower(Tail(promises),
                      IF Head(promises).follower_bid < best.follower_bid
                      THEN Head(promises) ELSE best)

\* handle_promise_response that takes half of the team for a majority.
handle_promise_response_half_is_enough(h, message, step) ==
    IF ~h.is_proposing \/ message.paxos_id # h.proposal_id THEN [h |-> h, out |-> NoMsg]
    ELSE
    LET promises == Append(h.promises_recieved, message)
        h1 == [h EXCEPT !.promises_recieved = promises]
    IN  IF 2 * Len(promises) < h.team_size THEN [h |-> h1, out |-> NoMsg]
        ELSE
        LET h2 == [h1 EXCEPT !.is_proposing = FALSE]
            best_promise == BestPromise(Tail(promises), Head(promises))
            value_to_propose == IF best_promise.mission # NoMission
                                THEN best_promise.mission
                                ELSE h.proposed_mission
            best_follower == BestFollower(Tail(promises), Head(promises))
        IN  IF value_to_propose = NoMission \/ h.proposal_id = NoId
            THEN [h |-> h2, out |-> NoMsg]
            ELSE [h |-> h2,
                  out |-> AcceptRequest(h.robot_id, step, h.proposal_id,
                              FullMission(value_to_propose.cost,
                                          value_to_propose.target_tile,
                                          h.robot_id, best_follower.sender_id))]

handle_promise_response(h, message, step) ==
    IF ~h.is_proposing \/ message.paxos_id # h.proposal_id THEN [h |-> h, out |-> NoMsg]
    ELSE
    LET promises == Append(h.promises_recieved, message)
        h1 == [h EXCEPT !.promises_recieved = promises]
    IN  IF 2 * Len(promises) <= h.team_size THEN [h |-> h1, out |-> NoMsg]
        ELSE
        LET h2 == [h1 EXCEPT !.is_proposing = FALSE]
            best_promise == BestPromise(Tail(promises), Head(promises))
            value_to_propose == IF best_promise.mission # NoMission
                                THEN best_promise.mission
                                ELSE h.proposed_mission
            best_follower == BestFollower(Tail(promises), Head(promises))
        IN  IF value_to_propose = NoMission \/ h.proposal_id = NoId
            THEN [h |-> h2, out |-> NoMsg]
            ELSE [h |-> h2,
                  out |-> AcceptRequest(h.robot_id, step, h.proposal_id,
                              FullMission(value_to_propose.cost,
                                          value_to_propose.target_tile,
                                          h.robot_id, best_follower.sender_id))]

\* handle_prepare_request with `<=` for `<` in its guard: a request equal to
\* the promise is rejected.
handle_prepare_request_rejects_equal(h, message, step, current_tile) ==
    IF h.promised_id # NoId /\ ~IdLess(h.promised_id, message.paxos_id)
    THEN [h |-> h, to |-> None, out |-> NoMsg]
    ELSE [h |-> [(IF h.is_proposing /\ IdLess(h.proposal_id, message.paxos_id)
                  THEN reset_proposer_state(h) ELSE h)
                 EXCEPT !.promised_id = message.paxos_id],
          to |-> message.sender_id,
          out |-> PrepareResponse(h.robot_id, step, message.paxos_id,
                                  h.accepted_value,
                                  manhattan_distance(current_tile,
                                                     message.mission.target_tile))]

\* handle_prepare_request without the preemption: a proposer promises the
\* higher id and keeps proposing.
handle_prepare_request_keeps_proposing(h, message, step, current_tile) ==
    IF h.promised_id # NoId /\ IdLess(message.paxos_id, h.promised_id)
    THEN [h |-> h, to |-> None, out |-> NoMsg]
    ELSE [h |-> [h EXCEPT !.promised_id = message.paxos_id],
          to |-> message.sender_id,
          out |-> PrepareResponse(h.robot_id, step, message.paxos_id,
                                  h.accepted_value,
                                  manhattan_distance(current_tile,
                                                     message.mission.target_tile))]

\* The reply goes to message.sender_id (the `to` field).
handle_prepare_request(h, message, step, current_tile) ==
    IF h.promised_id # NoId /\ IdLess(message.paxos_id, h.promised_id)
    THEN [h |-> h, to |-> None, out |-> NoMsg]
    ELSE
    LET h1 == IF h.is_proposing /\ IdLess(h.proposal_id, message.paxos_id)
              THEN reset_proposer_state(h) ELSE h
        h2 == [h1 EXCEPT !.promised_id = message.paxos_id]
        cost == manhattan_distance(current_tile, message.mission.target_tile)
    IN  [h |-> h2, to |-> message.sender_id,
         out |-> PrepareResponse(h.robot_id, step, message.paxos_id,
                                 h2.accepted_value, cost)]

\* handle_accept_request without its guard: a request below the promise is accepted.
handle_accept_request_below_promise(h, message, step) ==
    [h |-> [h EXCEPT !.promised_id = message.paxos_id,
                     !.accepted_id = message.paxos_id,
                     !.accepted_value = message.mission],
     out |-> AcceptResponse(h.robot_id, step, message.paxos_id, message.mission)]

handle_accept_request(h, message, step) ==
    IF h.promised_id # NoId /\ IdLess(message.paxos_id, h.promised_id)
    THEN [h |-> h, out |-> NoMsg]
    ELSE [h |-> [h EXCEPT !.promised_id = message.paxos_id,
                          !.accepted_id = message.paxos_id,
                          !.accepted_value = message.mission],
          out |-> AcceptResponse(h.robot_id, step, message.paxos_id, message.mission)]

\* acceptance_tally is a dict from the dumped FullMission to its count, kept
\* as the sequence of its (key, count) entries.
TallyGet(tally, key) ==
    LET Is(e) == e.key = key
        hit == SelectSeq(tally, Is)
    IN  IF hit = <<>> THEN 0 ELSE hit[1].count

TallyPut(tally, key, n) ==
    IF TallyGet(tally, key) = 0 THEN Append(tally, [key |-> key, count |-> n])
    ELSE [i \in 1..Len(tally) |->
             IF tally[i].key = key THEN [key |-> key, count |-> n] ELSE tally[i]]

handle_accept_response(h, message) ==
    IF h.accepted_id = NoId THEN h
    ELSE
    LET key == message.mission
        n == TallyGet(h.acceptance_tally, key) + 1
        h1 == [h EXCEPT !.acceptance_tally = TallyPut(@, key, n)]
    IN  IF ~h.consensus_reached /\ 2 * n > h.team_size
        THEN [h1 EXCEPT !.consensus_reached = TRUE, !.final_value = message.mission]
        ELSE h1

\* did_proposal_fail without the timeout: a proposal never fails.
did_proposal_fail_never(h, current_step, proposal_start_step) == FALSE

did_proposal_fail(h, current_step, proposal_start_step) ==
    h.is_proposing /\ (current_step - proposal_start_step) > PROPOSAL_TIMEOUT

\* ------------------------------------------------------------------ observation
\* BaseRobot._get_observation_pos: the observed cells, in the order listed.
_get_observation_pos(at, facing) ==
    LET near == <<-1, 0, 1>>
        far == <<-2, -1, 0, 1, 2>>
        sign == IF facing \in {"SOUTH", "WEST"} THEN -1 ELSE 1
        Cell(i, j) == IF DirValue(facing) < 2
                      THEN <<at[1] + j, at[2] + i * sign>>
                      ELSE <<at[1] + i * sign, at[2] + j>>
    IN  [k \in 1..3 |-> Cell(1, near[k])] \o [k \in 1..5 |-> Cell(2, far[k])]

Observation(p, gold_count, same_team_robot_count) ==
    [pos |-> p, gold_count |-> gold_count, same_team_robot_count |-> same_team_robot_count]

\* BaseRobot.observe for robot r on the board as it stands
observe(r) ==
    LET cells == SelectSeq(_get_observation_pos(pos[r], direction[r]), is_valid_position)
    IN  [k \in 1..Len(cells) |->
            Observation(cells[k], tiles[cells[k]].gold_count,
                        Cardinality({o \in LocGet(robot_locations, cells[k]) :
                                        team[o] = team[r]}))]

\* ------------------------------------------------------------------ agent: map
\* sensed_map is a dict from position to SensedTile(step, gold_count,
\* same_team_count), kept as the sequence of its entries in insertion order.
SensedTile(p, step, gold_count, same_team_count) ==
    [pos |-> p, step |-> step, gold_count |-> gold_count, same_team_count |-> same_team_count]

SensedHas(sensed_map, p) == \E i \in 1..Len(sensed_map) : sensed_map[i].pos = p

SensedGet(sensed_map, p) ==
    sensed_map[CHOOSE i \in 1..Len(sensed_map) : sensed_map[i].pos = p]

SensedPut(sensed_map, tile) ==
    IF SensedHas(sensed_map, tile.pos)
    THEN [i \in 1..Len(sensed_map) |->
             IF sensed_map[i].pos = tile.pos THEN tile ELSE sensed_map[i]]
    ELSE Append(sensed_map, tile)

_update_sensed_tile(sensed_map, step, observation) ==
    LET sensed_tile == IF SensedHas(sensed_map, observation.pos)
                       THEN SensedGet(sensed_map, observation.pos)
                       ELSE SensedTile(observation.pos, -1, 0, 0)
    IN  IF sensed_tile.step > step THEN sensed_map
        ELSE SensedPut(sensed_map,
                       SensedTile(observation.pos, step, observation.gold_count,
                                  observation.same_team_robot_count))

RECURSIVE UpdateSensedTiles(_, _, _)
UpdateSensedTiles(sensed_map, step, observations) ==
    IF observations = <<>> THEN sensed_map
    ELSE UpdateSensedTiles(_update_sensed_tile(sensed_map, step, Head(observations)),
                           step, Tail(observations))

RECURSIVE BestMission(_, _, _, _, _)
\* The loop of find_best_mission_from_map over the entries not yet visited.
BestMission(self, step, entries, best_mission, lowest_total_cost) ==
    IF entries = <<>> THEN best_mission
    ELSE
    LET sensed_tile == Head(entries)
        cost_robot_to_gold == manhattan_distance(self.pos, sensed_tile.pos)
        cost_gold_to_deposit == manhattan_distance(sensed_tile.pos, self.deposit_pos)
        total_mission_cost == cost_robot_to_gold + cost_gold_to_deposit
    IN  IF sensed_tile.gold_count = 0 \/ step - sensed_tile.step > 100
        THEN BestMission(self, step, Tail(entries), best_mission, lowest_total_cost)
        ELSE IF total_mission_cost < lowest_total_cost
        THEN BestMission(self, step, Tail(entries),
                         Mission(cost_gold_to_deposit, sensed_tile.pos), total_mission_cost)
        ELSE BestMission(self, step, Tail(entries), best_mission, lowest_total_cost)

find_best_mission_from_map(self, step) ==
    BestMission(self, step, self.sensed_map, NoMission, 999)

\* ------------------------------------------------------------------ agent: exploration
\* generate_cost_matrix at cell <<x, y>>
CostAt(self, c) ==
    LET x == self.pos[1]
        y == self.pos[2]
        d == self.direction
        ahead == CASE d = "NORTH" -> c[1] = x /\ c[2] >= y
                   [] d = "SOUTH" -> c[1] = x /\ c[2] <= y
                   [] d = "EAST"  -> c[2] = y /\ c[1] >= x
                   [] d = "WEST"  -> c[2] = y /\ c[1] <= x
        behind == CASE d = "NORTH" -> c[1] # x /\ c[2] > y
                    [] d = "SOUTH" -> c[1] # x /\ c[2] < y
                    [] d = "EAST"  -> c[1] < x /\ c[2] # y
                    [] d = "WEST"  -> c[1] > x /\ c[2] # y
        turn_cost == IF behind THEN 2 ELSE IF ahead THEN 0 ELSE 1
    IN  manhattan_distance(self.pos, c) + turn_cost

\* exploration_score_map at cell c (the agent's own cell is -inf and is never
\* asked for)
ScoreAt(self, step, c) ==
    LET known == SensedHas(self.sensed_map, c)
        t == SensedGet(self.sensed_map, c)
        coldness == IF known THEN step - t.step ELSE step
        gold_bonus == IF known THEN t.gold_count ELSE 0
        robot_density == IF known THEN t.same_team_count ELSE 0
    IN  coldness * 5 + gold_bonus * 10 - CostAt(self, c) * 50 - robot_density * 150

\* The cells in the order of the flattened score map: row by row.
CellAt(k) == <<k % BoardW, k \div BoardW>>

RECURSIVE ArgMaxScore(_, _, _, _)
\* np.argmax: the first cell of the highest score, from cell k on.
ArgMaxScore(self, step, k, best) ==
    IF k >= BoardW * BoardH THEN best
    ELSE IF CellAt(k) = self.pos THEN ArgMaxScore(self, step, k + 1, best)
    ELSE IF best = NoPos \/ ScoreAt(self, step, CellAt(k)) > ScoreAt(self, step, best)
    THEN ArgMaxScore(self, step, k + 1, CellAt(k))
    ELSE ArgMaxScore(self, step, k + 1, best)

decide_exploration_target(self, step) == ArgMaxScore(self, step, 0, NoPos)

\* ------------------------------------------------------------------ agent: path
Moves(r, n) == [k \in 1..n |-> MoveAction(r)]

\* pathfind taking the x leg first whatever the facing, without turning for it
pathfind_helping_x_only(self, target) ==
    LET r == self.robot_id
        dx == target[1] - self.pos[1]
        dy == target[2] - self.pos[2]
        turn_y == <<TurnAction(r, IF dy > 0 THEN "SOUTH" ELSE "NORTH")>>
    IN  Moves(r, Abs(dx)) \o (IF dy # 0 THEN turn_y \o Moves(r, Abs(dy)) ELSE <<>>)

pathfind(self, target) ==
    LET r == self.robot_id
        dx == target[1] - self.pos[1]
        dy == target[2] - self.pos[2]
        is_helping_x == (dx > 0 /\ self.direction = "EAST") \/ (dx < 0 /\ self.direction = "WEST")
        is_helping_y == (dy > 0 /\ self.direction = "SOUTH") \/ (dy < 0 /\ self.direction = "NORTH")
        turn_x == <<TurnAction(r, IF dx > 0 THEN "EAST" ELSE "WEST")>>
        turn_y == <<TurnAction(r, IF dy > 0 THEN "SOUTH" ELSE "NORTH")>>
    IN  IF is_helping_x
        THEN Moves(r, Abs(dx)) \o (IF dy # 0 THEN turn_y \o Moves(r, Abs(dy)) ELSE <<>>)
        ELSE IF is_helping_y
        THEN Moves(r, Abs(dy)) \o (IF dx # 0 THEN turn_x \o Moves(r, Abs(dx)) ELSE <<>>)
        ELSE (IF dx # 0 THEN turn_x \o Moves(r, Abs(dx)) ELSE <<>>)
                 \o (IF dy # 0 THEN turn_y \o Moves(r, Abs(dy)) ELSE <<>>)

\* ------------------------------------------------------------------ agent: messages
\* An outbox entry: (receiver id or None for a broadcast, message).
Out(to, message) == [to |-> to, message |-> message]

Send(self, to, message) ==
    [self EXCEPT !.outgoing_messages = Append(@, Out(to, message))]

\* One turn of process_messages' loop: the agent after handling `message`.
ProcessMessage(self, message, step) ==
    CASE message.kind = "ObservationsMessage" ->
            [self EXCEPT !.sensed_map =
                UpdateSensedTiles(@, message.step, message.observations)]
      [] message.kind = "GoldConsumedMessage" ->
            IF SensedHas(self.sensed_map, message.consumed)
            THEN LET t == SensedGet(self.sensed_map, message.consumed) IN
                 [self EXCEPT !.sensed_map =
                     SensedPut(@, [t EXCEPT !.gold_count = @ - 1, !.step = message.step])]
            ELSE self
      [] message.kind = "PrepareRequest" ->
            LET got == handle_prepare_request(self.paxos_handler, message, step, self.pos)
                self1 == [self EXCEPT !.paxos_handler = got.h]
            IN  IF got.out.kind # "None" THEN Send(self1, got.to, got.out) ELSE self1
      [] message.kind = "PrepareResponse" ->
            IF ~self.paxos_handler.is_proposing
               \/ message.paxos_id # self.paxos_handler.proposal_id
            THEN self
            ELSE LET got == handle_promise_response(self.paxos_handler, message, step)
                     self1 == [self EXCEPT !.paxos_handler = got.h]
                 IN  IF got.out.kind # "None" THEN Send(self1, None, got.out) ELSE self1
      [] message.kind = "AcceptRequest" ->
            LET got == handle_accept_request(self.paxos_handler, message, step)
                self1 == [self EXCEPT !.paxos_handler = got.h]
            IN  IF got.out.kind # "None" THEN Send(self1, None, got.out) ELSE self1
      [] message.kind = "AcceptResponse" ->
            [self EXCEPT !.paxos_handler = handle_accept_response(@, message)]
      [] message.kind = "TurnMessage" ->
            [self EXCEPT !.agreed_direction = message.turn]
      [] message.kind \in {"MissionCompleteMessage", "MissionAbortMessage"} ->
            [self EXCEPT !.current_mission = NoMission,
                         !.state = "EXPLORING",
                         !.saved_actions = <<>>,
                         !.agreed_direction = NoDir,
                         !.paxos_handler = reset_acceptor_state(reset_proposer_state(@))]
      [] OTHER -> self

RECURSIVE ProcessRange(_, _, _, _, _)
\* process_messages' loop over inbox[lo..hi], in order (the range is halved
\* only to keep the evaluation shallow); nothing is handled after a raise.
ProcessRange(self, inbox, lo, hi, step) ==
    IF lo > hi \/ self.err # "none" THEN self
    ELSE IF lo = hi THEN ProcessMessage(self, inbox[lo], step)
    ELSE LET mid == (lo + hi) \div 2
             half == ProcessRange(self, inbox, lo, mid, step)
         IN  ProcessRange(half, inbox, mid + 1, hi, step)

\* process_messages: the inbox is popped empty, message by message.
process_messages(self, step) ==
    ProcessRange([self EXCEPT !.incomming_messages = <<>>],
                 self.incomming_messages, 1, Len(self.incomming_messages), step)

\* ------------------------------------------------------------------ agent: decision
\* The consensus block without its reset of a pending proposal.
ConsensusBlock_keeps_proposal(self) ==
    IF ~self.paxos_handler.consensus_reached THEN self
    ELSE
    LET newly_decided_mission == self.paxos_handler.final_value
        is_committed == self.state \in {"AWAITING_PARTNER", "DELIVERING"}
        named == /\ newly_decided_mission # NoMission
                 /\ self.robot_id \in {newly_decided_mission.leader_id,
                                       newly_decided_mission.follower_id}
        changed == self.current_mission # newly_decided_mission
        s1 == IF is_committed THEN self
              ELSE IF named
              THEN [self EXCEPT !.state = IF changed THEN "EXECUTING" ELSE @,
                                !.saved_actions = IF changed THEN <<>> ELSE @,
                                !.current_mission = newly_decided_mission]
              ELSE [self EXCEPT !.current_mission = NoMission,
                                !.state = IF @ = "EXECUTING" THEN "EXPLORING" ELSE @]
    IN  [s1 EXCEPT !.paxos_handler.consensus_reached = FALSE,
                   !.paxos_handler.final_value = NoMission,
                   !.proposal_start_step = None]

\* The consensus block of decide_action.
ConsensusBlock(self) ==
    IF ~self.paxos_handler.consensus_reached THEN self
    ELSE
    LET newly_decided_mission == self.paxos_handler.final_value
        is_committed == self.state \in {"AWAITING_PARTNER", "DELIVERING"}
        named == /\ newly_decided_mission # NoMission
                 /\ self.robot_id \in {newly_decided_mission.leader_id,
                                       newly_decided_mission.follower_id}
        changed == self.current_mission # newly_decided_mission
        s1 == IF is_committed THEN self
              ELSE IF named
              THEN [self EXCEPT !.state = IF changed THEN "EXECUTING" ELSE @,
                                !.saved_actions = IF changed THEN <<>> ELSE @,
                                !.current_mission = newly_decided_mission]
              ELSE [self EXCEPT !.current_mission = NoMission,
                                !.state = IF @ = "EXECUTING" THEN "EXPLORING" ELSE @]
        s2 == IF s1.paxos_handler.is_proposing
              THEN [s1 EXCEPT !.paxos_handler = reset_proposer_state(@)]
              ELSE s1
    IN  [s2 EXCEPT !.paxos_handler.consensus_reached = FALSE,
                   !.paxos_handler.final_value = NoMission,
                   !.proposal_start_step = None]

\* The PROPOSING failure block of decide_action.
ProposingBlock(self, step) ==
    IF self.state # "PROPOSING" THEN self
    ELSE IF /\ self.proposal_start_step # None
            /\ did_proposal_fail(self.paxos_handler, step, self.proposal_start_step)
    THEN LET count == self.failed_proposal_count + 1 IN
         [self EXCEPT !.failed_proposal_count = count,
                      !.backoff_until_step = step + Min2(2 ^ count, 50),
                      !.state = "EXPLORING",
                      !.paxos_handler = reset_proposer_state(@),
                      !.proposal_start_step = None]
    ELSE IF ~self.paxos_handler.is_proposing
    THEN LET count == self.failed_proposal_count + 1 IN
         [self EXCEPT !.failed_proposal_count = count,
                      !.backoff_until_step = step + Min2(2 ^ (count - 1), 30),
                      !.state = "EXPLORING",
                      !.proposal_start_step = None]
    ELSE self

\* `return self.saved_actions.popleft()` when a path is queued, else a wait.
PopOrWait(self) ==
    IF self.saved_actions # <<>>
    THEN [self |-> [self EXCEPT !.saved_actions = Tail(@)], action |-> Head(self.saved_actions)]
    ELSE [self |-> self, action |-> WaitAction(self.robot_id)]

\* An exception leaving decide_action: the agent as it was when it was raised.
Throw(self, e) == [self |-> [self EXCEPT !.err = e], action |-> WaitAction(self.robot_id)]

DecideExploring(self, step) ==
    LET best_local_mission == find_best_mission_from_map(self, step) IN
    IF /\ best_local_mission # NoMission
       /\ self.current_mission = NoMission
       /\ step >= self.backoff_until_step
    THEN LET started == start_election(self.paxos_handler, best_local_mission, step)
             s1 == Send([self EXCEPT !.paxos_handler = started.h], None, started.out)
         IN  PopOrWait([s1 EXCEPT !.proposal_start_step = step,
                                  !.saved_actions = pathfind(self, best_local_mission.target_tile),
                                  !.state = "PROPOSING"])
    ELSE LET target == decide_exploration_target(self, step) IN
         IF target # self.target_pos
         THEN PopOrWait([self EXCEPT !.target_pos = target,
                                     !.saved_actions = pathfind(self, target)])
         ELSE PopOrWait(self)

DecideExecuting(self) ==
    LET s1 == IF self.saved_actions = <<>> /\ self.current_mission # NoMission
              THEN [self EXCEPT !.saved_actions = pathfind(self, self.current_mission.target_tile)]
              ELSE self
    IN  IF s1.saved_actions # <<>> THEN PopOrWait(s1)
        ELSE [self |-> [s1 EXCEPT !.state = "AWAITING_PARTNER"],
              action |-> WaitAction(self.robot_id)]

\* The direction of the first TurnAction of `path`, else `facing`.
RECURSIVE FirstTurn(_, _)
FirstTurn(path, facing) ==
    IF path = <<>> THEN facing
    ELSE IF Head(path).type = "TurnAction" THEN Head(path).new_direction
    ELSE FirstTurn(Tail(path), facing)

\* AWAITING_PARTNER once the controller has partnered the agent.
DecidePartnered(self, step) ==
    IF ~SensedHas(self.sensed_map, self.pos)
    THEN Throw([self EXCEPT !.agreed_direction = NoDir], "KeyError")
    ELSE
    LET here == SensedGet(self.sensed_map, self.pos)
        s1 == [self EXCEPT !.agreed_direction = NoDir,
                           !.sensed_map = SensedPut(@, [here EXCEPT !.gold_count = @ - 1])]
        s2 == Send(s1, None, GoldConsumedMessage(self.robot_id, step, self.pos))
    IN  IF s2.current_mission = NoMission THEN Throw(s2, "AttributeError")
        ELSE
        LET s3 == IF self.robot_id = s2.current_mission.leader_id
                  THEN Send(s2, None,
                            ObservationsMessage(self.robot_id, step,
                                <<Observation(self.pos, here.gold_count - 1, 2)>>))
                  ELSE s2
            s4 == [s3 EXCEPT !.state = "DELIVERING",
                             !.saved_actions = @ \o pathfind(self, self.deposit_pos)]
        IN  IF s4.saved_actions = <<>> THEN Throw(s4, "IndexError") ELSE PopOrWait(s4)

\* AWAITING_PARTNER while unpartnered: the leader settles the facing.
DecideDirection(self, step) ==
    LET is_leader == self.current_mission.leader_id = self.robot_id
        is_follower == self.current_mission.follower_id = self.robot_id
        agreed == FirstTurn(pathfind(self, self.deposit_pos), self.direction)
        s1 == IF self.agreed_direction = NoDir /\ is_leader
              THEN LET s0 == [self EXCEPT !.agreed_direction = agreed] IN
                   IF agreed # self.direction
                   THEN Send(s0, self.current_mission.follower_id,
                             TurnMessage(self.robot_id, step, agreed))
                   ELSE s0
              ELSE self
    IN  IF self.agreed_direction = NoDir /\ ~is_leader /\ is_follower
        THEN [self |-> self, action |-> WaitAction(self.robot_id)]
        ELSE IF s1.agreed_direction # NoDir /\ s1.agreed_direction # self.direction
        THEN [self |-> s1, action |-> TurnAction(self.robot_id, s1.agreed_direction)]
        ELSE [self |-> s1, action |-> PickupAction(self.robot_id, self.pos)]

DecideAwaitingPartner(self, step) ==
    LET s1 == IF self.timeout_counter = None THEN [self EXCEPT !.timeout_counter = 500]
              ELSE IF self.timeout_counter = 0
              THEN [Send(self, None, MissionAbortMessage(self.robot_id, step))
                       EXCEPT !.state = "EXPLORING"]
              ELSE [self EXCEPT !.timeout_counter = @ - 1]
    IN  IF Truthy(s1.partner_id) THEN DecidePartnered(s1, step)
        ELSE IF s1.current_mission = NoMission
        THEN [self |-> [s1 EXCEPT !.state = "EXPLORING"], action |-> WaitAction(self.robot_id)]
        ELSE DecideDirection(s1, step)

DecideDelivering(self, step) ==
    IF ~Truthy(self.partner_id) /\ self.pos # self.deposit_pos
    THEN [self |-> [Send(self, None, MissionAbortMessage(self.robot_id, step))
                       EXCEPT !.saved_actions = <<>>, !.state = "EXPLORING"],
          action |-> WaitAction(self.robot_id)]
    ELSE IF ~Truthy(self.partner_id) /\ self.pos = self.deposit_pos
    THEN LET s1 == IF /\ self.current_mission # NoMission
                      /\ self.current_mission.leader_id = self.robot_id
                   THEN Send(self, None, MissionCompleteMessage(self.robot_id, step))
                   ELSE self
         IN  [self |-> [s1 EXCEPT !.state = "EXPLORING",
                                  !.paxos_handler = reset_proposer_state(@)],
              action |-> WaitAction(self.robot_id)]
    ELSE PopOrWait(self)

\* decide_action's branch on self.state
DecideByState(self, step) ==
    CASE self.state = "EXPLORING" -> DecideExploring(self, step)
      [] self.state = "PROPOSING" -> PopOrWait(self)
      [] self.state = "EXECUTING" -> DecideExecuting(self)
      [] self.state = "AWAITING_PARTNER" -> DecideAwaitingPartner(self, step)
      [] self.state = "DELIVERING" -> DecideDelivering(self, step)

\* Robot.decide_action: the agent afterwards and the action it returns.
decide_action(self, step, observations) ==
    LET s1 == process_messages(self, step)
        s2 == [s1 EXCEPT !.sensed_map = UpdateSensedTiles(@, step, observations)]
        s3 == Send(s2, None, ObservationsMessage(self.robot_id, step, observations))
    IN  DecideByState(ProposingBlock(ConsensusBlock(s3), step), step)

\* ------------------------------------------------------------------ message bus
\* MessageHandler.messages is a defaultdict(list) keyed by delivery step.
BusGet(bus, k) == IF k \in DOMAIN bus THEN bus[k] ELSE <<>>

BusDel(bus, k) == [j \in (DOMAIN bus) \ {k} |-> bus[j]]

MessageItem(sender_id, receiver_id, message) ==
    [sender_id |-> sender_id, receiver_id |-> receiver_id, message |-> message]

_get_random_delay == 1

\* _add_message filing the item one step late.
DeliveryStep_late(message_item) == message_item.message.step + 2

\* _add_message files the item under message.step + self._get_random_delay().
DeliveryStep(message_item) == message_item.message.step + _get_random_delay

\* broadcast and direct_message: the item handed to _add_message
broadcast(message) == MessageItem(message.sender_id, None, message)

direct_message(receiver_id, message) == MessageItem(message.sender_id, receiver_id, message)

\* get_messages' default team id lists
red_team_id == 0..9

blue_team_id == 10..19

\* The (receiver, message) entries one message item expands to.
Expand(message_item) ==
    IF message_item.receiver_id = None
    THEN LET ids == IF message_item.sender_id \in red_team_id THEN red_team_id ELSE blue_team_id
             first == CHOOSE i \in ids : \A j \in ids : i <= j
         IN  [k \in 1..Cardinality(ids) |-> Out(first + k - 1, message_item.message)]
    ELSE <<Out(message_item.receiver_id, message_item.message)>>

RECURSIVE ExpandRange(_, _, _)
\* The expansions of items[lo..hi], in order.
ExpandRange(items, lo, hi) ==
    IF lo > hi THEN <<>>
    ELSE IF lo = hi THEN Expand(items[lo])
    ELSE LET mid == (lo + hi) \div 2
         IN  ExpandRange(items, lo, mid) \o ExpandRange(items, mid + 1, hi)

\* get_messages: the bus afterwards and the list returned
get_messages(bus, current_step) ==
    IF current_step \notin DOMAIN bus THEN [bus |-> bus, out |-> <<>>]
    ELSE [bus |-> BusDel(bus, current_step),
          out |-> ExpandRange(bus[current_step], 1, Len(bus[current_step]))]

\* handle_incoming_messages: every collected message is filed, in order, at the
\* end of the list of its delivery step; `if receiver_id:` picks direct_message.
handle_incoming_messages(bus, msgs) ==
    LET items == [i \in 1..Len(msgs) |->
                    IF Truthy(msgs[i].to)
                    THEN direct_message(msgs[i].to, msgs[i].message)
                    ELSE broadcast(msgs[i].message)]
        keys == (DOMAIN bus) \cup {DeliveryStep(items[i]) : i \in 1..Len(items)}
    IN  [k \in keys |->
            LET Due(item) == DeliveryStep(item) = k
            IN  BusGet(bus, k) \o SelectSeq(items, Due)]

\* handle_outgoing_messages' loop: every delivery is appended to its receiver's
\* inbox, in order; a receiver id outside the robot list is an IndexError, and
\* the deliveries before it have been made.
DeliverAll(inboxes, deliveries) ==
    LET bad == {k \in 1..Len(deliveries) : deliveries[k].to \notin DOMAIN inboxes}
        stop == IF bad = {} THEN Len(deliveries) + 1
                ELSE CHOOSE k \in bad : \A j \in bad : k <= j
        made == SubSeq(deliveries, 1, stop - 1)
    IN  [inboxes |-> [r \in DOMAIN inboxes |->
                        LET For(d) == d.to = r
                            mine == SelectSeq(made, For)
                        IN  inboxes[r] \o [k \in 1..Len(mine) |-> mine[k].message]],
         err |-> IF bad = {} THEN "none" ELSE "IndexError"]

RECURSIVE CollectOutboxes(_, _)
\* collect_messages: the outboxes of the robots from r on, concatenated.
CollectOutboxes(outboxes, r) ==
    IF r \notin DOMAIN outboxes THEN <<>>
    ELSE outboxes[r] \o CollectOutboxes(outboxes, r + 1)

\* ------------------------------------------------------------------ agent runs
\* Steps a run of the agents is followed for.
WorldMaxSteps == 20

\* Robot.__init__ (the fields it adds to BaseRobot's)
NewRobot(r) ==
    [state |-> "EXPLORING", sensed_map |-> <<>>, target_pos |-> NoPos,
     saved_actions |-> <<>>, paxos_handler |-> NewPaxosHandler(r, 10),
     current_mission |-> NoMission, agreed_direction |-> NoDir,
     timeout_counter |-> None, proposal_start_step |-> None,
     failed_proposal_count |-> 0, backoff_until_step |-> 0]

\* Robot r as decide_action sees it: BaseRobot's fields and Robot's.
SelfOf(r) ==
    [robot_id |-> r, pos |-> pos[r], direction |-> direction[r],
     partner_id |-> partner_id[r], team |-> team[r],
     deposit_pos |-> IF team[r] = "RED" THEN red_deposit_pos ELSE blue_deposit_pos,
     incomming_messages |-> incomming_messages[r],
     outgoing_messages |-> outgoing_messages[r],
     state |-> robot[r].state, sensed_map |-> robot[r].sensed_map,
     target_pos |-> robot[r].target_pos, saved_actions |-> robot[r].saved_actions,
     paxos_handler |-> robot[r].paxos_handler,
     current_mission |-> robot[r].current_mission,
     agreed_direction |-> robot[r].agreed_direction,
     timeout_counter |-> robot[r].timeout_counter,
     proposal_start_step |-> robot[r].proposal_start_step,
     failed_proposal_count |-> robot[r].failed_proposal_count,
     backoff_until_step |-> robot[r].backoff_until_step,
     err |-> "none"]

\* The Robot fields of an agent record.
RobotFields(self) ==
    [state |-> self.state, sensed_map |-> self.sensed_map,
     target_pos |-> self.target_pos, saved_actions |-> self.saved_actions,
     paxos_handler |-> self.paxos_handler, current_mission |-> self.current_mission,
     agreed_direction |-> self.agreed_direction,
     timeout_counter |-> self.timeout_counter,
     proposal_start_step |-> self.proposal_start_step,
     failed_proposal_count |-> self.failed_proposal_count,
     backoff_until_step |-> self.backoff_until_step]

Running == err = "none" /\ step_count < run_steps

\* step: self.handle_outgoing_messages()
HandleOutgoingMessages ==
    /\ Running /\ phase = "deliver"
    /\ \E got \in {get_messages(messages, step_count)} :
       \E delivered \in {DeliverAll(incomming_messages, got.out)} :
           /\ messages' = got.bus
           /\ incomming_messages' = delivered.inboxes
           /\ err' = delivered.err
    /\ phase' = "collect_actions"
    /\ next_robot' = 0
    /\ step_actions' = <<>>
    /\ UNCHANGED <<step_count, run_steps, boardVars, step_messages, outgoing_messages, robot>>

\* step: one turn of collect_actions' loop, robot next_robot observes and decides
DecideAction ==
    /\ Running /\ phase = "collect_actions"
    /\ next_robot \in Robots
    /\ \E got \in {decide_action(SelfOf(next_robot), step_count, observe(next_robot))} :
       LET r == next_robot
       IN  /\ robot' = [robot EXCEPT ![r] = RobotFields(got.self)]
           /\ incomming_messages' = [incomming_messages EXCEPT ![r] = got.self.incomming_messages]
           /\ outgoing_messages' = [outgoing_messages EXCEPT ![r] = got.self.outgoing_messages]
           /\ step_actions' = Append(step_actions, got.action)
           /\ err' = got.self.err
    /\ next_robot' = next_robot + 1
    /\ phase' = IF next_robot + 1 \in Robots THEN "collect_actions" ELSE "collect_messages"
    /\ UNCHANGED <<step_count, run_steps, boardVars, step_messages, messages>>

\* step: messages = self.collect_messages()
CollectMessages ==
    /\ Running /\ phase = "collect_messages"
    /\ step_messages' = CollectOutboxes(outgoing_messages, 0)
    /\ outgoing_messages' = [r \in Robots |-> <<>>]
    /\ phase' = "handle_incoming"
    /\ UNCHANGED <<step_count, run_steps, boardVars, err, next_robot, step_actions, messages,
                   incomming_messages, robot>>

\* step: self.handle_incoming_messages(messages)
HandleIncomingMessages ==
    /\ Running /\ phase = "handle_incoming"
    /\ messages' = handle_incoming_messages(messages, step_messages)
    /\ step_messages' = <<>>
    /\ phase' = "resolve"
    /\ UNCHANGED <<step_count, run_steps, boardVars, err, next_robot, step_actions,
                   incomming_messages, outgoing_messages, robot>>

\* The world a controller call leaves behind, written to the variables.
SetWorld(w) ==
    /\ pos' = w.pos
    /\ direction' = w.direction
    /\ partner_id' = w.partner_id
    /\ tiles' = w.tiles
    /\ robot_locations' = w.robot_locations
    /\ err' = w.err
    /\ UNCHANGED <<team, red_deposit_pos, blue_deposit_pos, initial_gold, run_steps>>

\* step: validated_actions = self.resolve_conflicts(actions)
ResolveConflicts ==
    /\ Running /\ phase = "resolve"
    /\ \E resolved \in {resolve_conflicts(World, step_actions)} :
           /\ SetWorld(resolved.w)
           /\ step_actions' = resolved.valid
    /\ phase' = "execute"
    /\ UNCHANGED <<step_count, next_robot, step_messages, agentVars>>

\* step: self.execute_actions(validated_actions)
ExecuteActions ==
    /\ Running /\ phase = "execute"
    /\ SetWorld(execute_actions(World, step_actions))
    /\ step_actions' = <<>>
    /\ phase' = "deposit"
    /\ UNCHANGED <<step_count, next_robot, step_messages, agentVars>>

\* step: self.handle_gold_deposit(); self.step_count += 1
HandleGoldDeposit ==
    /\ Running /\ phase = "deposit"
    /\ \E w \in {handle_gold_deposit(World)} :
           /\ SetWorld(w)
           /\ step_count' = IF w.err = "none" THEN step_count + 1 ELSE step_count
    /\ phase' = "deliver"
    /\ UNCHANGED <<next_robot, step_actions, step_messages, agentVars>>

WorldNext ==
    \/ HandleOutgoingMessages
    \/ DecideAction
    \/ CollectMessages
    \/ HandleIncomingMessages
    \/ ResolveConflicts
    \/ ExecuteActions
    \/ HandleGoldDeposit

\* A run of the red team's ten agents on a board holding initial_gold bars on
\* one plain tile; the agents start spread over the board row by row, from any
\* cell of the first row on, all facing the same way.
WorldTeam == [r \in 0..9 |-> "RED"]

\* The controller as constructed over a board holding gold_at[p] gold at p, the
\* ten red agents placed row by row from CellAt(shift), all facing d, and a
\* driver that calls step `steps` times.
WorldStart(gold_at, shift, d, steps) ==
    /\ step_count = 0
    /\ run_steps = steps
    /\ err = "none"
    /\ team = WorldTeam
    /\ red_deposit_pos = <<0, 0>>
    /\ blue_deposit_pos = <<BoardW - 1, BoardH - 1>>
    /\ initial_gold = SumOver(gold_at, Positions)
    /\ tiles = BoardTiles(gold_at, red_deposit_pos, blue_deposit_pos)
    /\ pos = [r \in DOMAIN WorldTeam |-> CellAt((r + shift) % (BoardW * BoardH))]
    /\ direction = [r \in DOMAIN WorldTeam |-> d]
    /\ partner_id = [r \in DOMAIN WorldTeam |-> None]
    /\ robot_locations = InitialLocations(pos)
    /\ phase = "deliver"
    /\ next_robot = 0
    /\ step_actions = <<>>
    /\ step_messages = <<>>
    /\ messages = <<>>
    /\ incomming_messages = [r \in DOMAIN WorldTeam |-> <<>>]
    /\ outgoing_messages = [r \in DOMAIN WorldTeam |-> <<>>]
    /\ robot = [r \in DOMAIN WorldTeam |-> NewRobot(r)]

\* n gold on the plain tile `at`, none elsewhere.
GoldAt(at, n) == [p \in Positions |-> IF p = at THEN n ELSE 0]

WorldInit ==
    \E n \in 1..MaxGold :
    \E at \in Positions \ {<<0, 0>>, <<BoardW - 1, BoardH - 1>>} :
    \E shift \in 0..(BoardW - 1) :
    \E d \in Directions :
        WorldStart(GoldAt(at, n), shift, d, WorldMaxSteps)

SpecWorld == WorldInit /\ [][WorldNext]_vars

\* ------------------------------------------------------------------ long runs
\* Steps a long run of the agents is followed for: past the first proposal
\* timeouts of the runs below.
LongRunSteps == 114

\* Runs in which agents start elections for different missions in one step and
\* in which, later, proposers wait for promises that never come: two gold on
\* one tile, the agents placed from CellAt(shift) and facing d.
LongRunStarts ==
    { [at |-> <<1, 1>>, shift |-> 1, d |-> "EAST"],
      [at |-> <<0, 1>>, shift |-> 2, d |-> "NORTH"] }

LongRunInit ==
    \E c \in LongRunStarts : WorldStart(GoldAt(c.at, 2), c.shift, c.d, LongRunSteps)

\* The driver's loop keeps calling step until the run is over. WorldNext is
\* enabled exactly while Running holds and every step of it moves the run on,
\* so this is what WF_vars(WorldNext) asks for.
SpecLongRun == LongRunInit /\ [][WorldNext]_vars /\ <>(~Running)

\* ------------------------------------------------------------------ duels
\* Steps a run with two gold tiles is followed for: the deadline of a duel of
\* its first steps lies within the run.
DuelRunSteps == 85

\* One gold on each of two tiles that different agents see in step 0, so that
\* agents start elections for distinct missions at once.
DuelGold == [p \in Positions |-> IF p \in {<<1, 0>>, <<1, 1>>} THEN 1 ELSE 0]

DuelInit ==
    \E shift \in 0..(BoardW - 1) : \E d \in {"EAST", "WEST"} :
        WorldStart(DuelGold, shift, d, DuelRunSteps)

\* The driver's loop keeps calling step until the run is over (see SpecLongRun).
SpecDuel == DuelInit /\ [][WorldNext]_vars /\ <>(~Running)


\* ------------------------------------------------------------------ second pickup
\* Steps the run with a second mission for the same tile is followed for:
\* past the first delivery and the wait of the second mission's pair.
PairingRunSteps == 36

\* Gold on (0,1), the tile south of the red deposit, the agents row by row.
\* With two gold, from the third cell on and facing SOUTH, the leader of the
\* second mission reaches the tile facing the deposit; with one gold, from
\* the second cell on and facing NORTH, the delivered gold is the only gold
\* the agents see afterwards.
PairingInit ==
    \E c \in { [n |-> 2, shift |-> 2, d |-> "SOUTH"],
               [n |-> 1, shift |-> 1, d |-> "NORTH"] } :
        WorldStart(GoldAt(<<0, 1>>, c.n), c.shift, c.d, PairingRunSteps)

SpecPairing == PairingInit /\ [][WorldNext]_vars

\* ------------------------------------------------------------------ scattered start
\* Steps the scattered run is followed for: past the first pickup and the
\* elections that follow it.
ScatterRunSteps == 23

\* Two gold on one tile and the ten agents on every second cell, row by row
\* from the second cell on, all facing NORTH: after the first pickup some
\* agents have the tile out of sight.
ScatterInit ==
    /\ step_count = 0
    /\ run_steps = ScatterRunSteps
    /\ err = "none"
    /\ team = WorldTeam
    /\ red_deposit_pos = <<0, 0>>
    /\ blue_deposit_pos = <<BoardW - 1, BoardH - 1>>
    /\ initial_gold = 2
    /\ tiles = BoardTiles(GoldAt(<<BoardW - 1, 1>>, 2), red_deposit_pos, blue_deposit_pos)
    /\ pos = [r \in DOMAIN WorldTeam |-> CellAt((2 * r + 1) % (BoardW * BoardH))]
    /\ direction = [r \in DOMAIN WorldTeam |-> "NORTH"]
    /\ partner_id = [r \in DOMAIN WorldTeam |-> None]
    /\ robot_locations = InitialLocations(pos)
    /\ phase = "deliver"
    /\ next_robot = 0
    /\ step_actions = <<>>
    /\ step_messages = <<>>
    /\ messages = <<>>
    /\ incomming_messages = [r \in DOMAIN WorldTeam |-> <<>>]
    /\ outgoing_messages = [r \in DOMAIN WorldTeam |-> <<>>]
    /\ robot = [r \in DOMAIN WorldTeam |-> NewRobot(r)]

SpecScatter == ScatterInit /\ [][WorldNext]_vars


\* ------------------------------------------------------------------ agent claims
Committed(a) == robot[a].state \in {"AWAITING_PARTNER", "DELIVERING"}

\* C4: in every reachable state no agent has a pending Paxos proposal
\* (is_proposing) while its FSM state is AWAITING_PARTNER or DELIVERING.
C4_NoPendingProposalWhileCommitted ==
    \A a \in Robots : robot[a].paxos_handler.is_proposing => ~Committed(a)

\* An agent that has proposed (its proposal counter moved) is now committed.
C4_Witness ==
    \E a \in Robots : Committed(a) /\ robot[a].paxos_handler.proposal_counter > 0

\* C5: agreement. current_mission is only ever set to a latched final_value,
\* and every MissionAbort/MissionComplete, which all agents receive, clears it;
\* so between steps the missions the agents hold were all latched since the last
\* reset, and the claim makes them one and the same FullMission.
C5_LatchedValuesAgree ==
    phase = "deliver" =>
        \A a, b \in Robots :
            (robot[a].current_mission # NoMission /\ robot[b].current_mission # NoMission)
                => robot[a].current_mission = robot[b].current_mission

\* The AcceptRequests among the inbox of agent a.
AcceptRequestsFor(a) ==
    {incomming_messages[a][i] : i \in {j \in 1..Len(incomming_messages[a]) :
                                         incomming_messages[a][j].kind = "AcceptRequest"}}

\* C6: an acceptor never accepts below its promise. An AcceptRequest whose id is
\* lower than the acceptor's promised_id gets no AcceptResponse and leaves the
\* handler as it was; and accepted_id, when set, is not greater than promised_id.
C6_NeverAcceptsBelowPromise ==
    \A a \in Robots :
        LET h == robot[a].paxos_handler IN
        /\ h.accepted_id # NoId =>
              (h.promised_id # NoId /\ ~IdLess(h.promised_id, h.accepted_id))
        /\ \A b \in Robots : \A m \in AcceptRequestsFor(b) :
              (h.promised_id # NoId /\ IdLess(m.paxos_id, h.promised_id)) =>
                  LET got == handle_accept_request(h, m, step_count)
                  IN  got.out = NoMsg /\ got.h = h

\* An AcceptRequest below the promise of the agent it was delivered to, which
\* has accepted an earlier request.
C6_Witness ==
    \E a \in Robots : \E m \in AcceptRequestsFor(a) :
        /\ IdLess(m.paxos_id, robot[a].paxos_handler.promised_id)
        /\ robot[a].paxos_handler.accepted_id # NoId

\* The AcceptRequests agent p has queued in its outbox.
AcceptRequestsOf(p) ==
    {outgoing_messages[p][i].message : i \in {j \in 1..Len(outgoing_messages[p]) :
                                       outgoing_messages[p][j].message.kind = "AcceptRequest"}}

\* The promises behind the AcceptRequest m of proposer p, while p still holds them.
PromisesBehind(p, m) ==
    LET promises == robot[p].paxos_handler.promises_recieved
    IN  IF /\ 2 * Len(promises) > robot[p].paxos_handler.team_size
           /\ \A i \in 1..Len(promises) : promises[i].paxos_id = m.paxos_id
        THEN promises ELSE <<>>

ReportedValues(promises) ==
    {promises[i].mission : i \in {j \in 1..Len(promises) : promises[j].mission # NoMission}}

\* C7: the value-pickup rule. The AcceptRequest of a proposer that reached a
\* promise majority carries a value its promises report, if any does, and the
\* proposer's own mission only if none does.
C7_CarriesReportedValue ==
    \A p \in Robots : \A m \in AcceptRequestsOf(p) :
        LET promises == PromisesBehind(p, m)
            reported == ReportedValues(promises)
        IN  promises # <<>> =>
                IF reported # {} THEN m.mission \in reported
                ELSE /\ m.mission.cost = robot[p].paxos_handler.proposed_mission.cost
                     /\ m.mission.target_tile =
                            robot[p].paxos_handler.proposed_mission.target_tile

\* C8: every FullMission an AcceptRequest carries has a leader that is not its
\* follower.
C8_LeaderIsNotFollower ==
    \A p \in Robots : \A m \in AcceptRequestsOf(p) :
        m.mission.leader_id # m.mission.follower_id

\* ------------------------------------------------------------------ bus claims
\* The agents a bus item is for: its receiver, or the sender's team.
RecipientsOf(message_item) ==
    IF message_item.receiver_id = None
    THEN {r \in Robots : team[r] = team[message_item.sender_id]}
    ELSE {message_item.receiver_id}

\* The messages the bus holds for agent r at the current step, in bus order.
DueFor(r) ==
    LET For(message_item) == r \in RecipientsOf(message_item)
        mine == SelectSeq(BusGet(messages, step_count), For)
    IN  [i \in 1..Len(mine) |-> mine[i].message]

\* An outbox entry and the bus item made of it: the same message, for the
\* entry's receiver (or for the team when it names none).
FiledAs(entry, message_item) ==
    /\ message_item.message = entry.message
    /\ IF entry.to = None
       THEN message_item.receiver_id = None
       ELSE entry.to \in RecipientsOf(message_item)

\* C9: every message emitted during step s reaches each recipient's inbox in
\* the deliver phase of step s + 1, before any agent decides, and at no other
\* time. Step by step: the outboxes collected in step s hold messages stamped
\* s; they are filed, all and in order, under step s + 1 and nowhere else; the
\* deliver phase appends to every inbox exactly what the bus holds for it and
\* leaves the bus empty, and hands over to the first agent's decision; no other
\* phase adds to an inbox.
C9_DeliveredOnceNextStep ==
    [][/\ phase = "collect_messages" =>
            /\ step_messages' = CollectOutboxes(outgoing_messages, 0)
            /\ \A i \in 1..Len(step_messages') :
                   step_messages'[i].message.step = step_count
       /\ phase = "handle_incoming" =>
            /\ DOMAIN messages' \subseteq {step_count + 1}
            /\ Len(BusGet(messages', step_count + 1)) = Len(step_messages)
            /\ \A i \in 1..Len(step_messages) :
                   FiledAs(step_messages[i], messages'[step_count + 1][i])
       /\ phase = "deliver" =>
            /\ \A r \in Robots :
                   incomming_messages'[r] = incomming_messages[r] \o DueFor(r)
            /\ DOMAIN messages' = {}
            /\ phase' = "collect_actions" /\ next_robot' = 0
       /\ phase # "deliver" =>
            \A r \in Robots : Len(incomming_messages'[r]) <= Len(incomming_messages[r])
      ]_vars

\* Right after a delivery: an inbox holds a broadcast and a unicast of the step
\* before.
C9_Witness ==
    /\ phase = "collect_actions" /\ next_robot = 0
    /\ \E r \in Robots :
          /\ \E i \in 1..Len(incomming_messages[r]) :
                 /\ incomming_messages[r][i].kind = "PrepareResponse"
                 /\ incomming_messages[r][i].step = step_count - 1
          /\ \E i \in 1..Len(incomming_messages[r]) :
                 /\ incomming_messages[r][i].kind = "ObservationsMessage"
                 /\ incomming_messages[r][i].step = step_count - 1

\* C10: a unicast reaches its receiver's inbox and no other. A PrepareResponse
\* is the reply to the proposer named in its paxos_id, so it is only ever to be
\* found in that proposer's inbox.
C10_UnicastOnlyToItsReceiver ==
    \A r \in Robots : \A i \in 1..Len(incomming_messages[r]) :
        incomming_messages[r][i].kind = "PrepareResponse"
            => incomming_messages[r][i].paxos_id[2] = r




\* Agent a is a proposer still waiting for its promise majority.
WaitingProposer(a) ==
    /\ robot[a].state = "PROPOSING"
    /\ robot[a].paxos_handler.is_proposing
    /\ robot[a].proposal_start_step # None

\* C18: (every step) when the agent that decides is a proposer still waiting
\* for its promise majority more than PROPOSAL_TIMEOUT steps after it started
\* its election, decide_action leaves it in EXPLORING, no longer proposing, its
\* failure counter one higher and backoff_until_step later than the current
\* step; (always) hence an agent in PROPOSING started its election at most
\* PROPOSAL_TIMEOUT + 1 steps ago: no agent remains in PROPOSING.
C18_ProposalTimesOutIntoBackoff ==
    /\ [][\A a \in Robots :
            (/\ phase = "collect_actions" /\ next_robot = a
             /\ WaitingProposer(a)
             /\ step_count - robot[a].proposal_start_step > PROPOSAL_TIMEOUT)
            => /\ robot'[a].state = "EXPLORING"
               /\ ~robot'[a].paxos_handler.is_proposing
               /\ robot'[a].failed_proposal_count = robot[a].failed_proposal_count + 1
               /\ robot'[a].backoff_until_step > step_count]_vars
    /\ [](\A a \in Robots :
            robot[a].state = "PROPOSING"
                => /\ robot[a].proposal_start_step # None
                   /\ step_count - robot[a].proposal_start_step <= PROPOSAL_TIMEOUT + 1)

\* An agent that has just decided, more than PROPOSAL_TIMEOUT steps into the
\* run, and is EXPLORING under the backoff the timeout branch computes.
C18_Witness ==
    \E a \in Robots :
        /\ phase \in {"collect_actions", "collect_messages"} /\ next_robot = a + 1
        /\ step_count > PROPOSAL_TIMEOUT
        /\ robot[a].state = "EXPLORING"
        /\ ~robot[a].paxos_handler.is_proposing
        /\ robot[a].proposal_start_step = None
        /\ robot[a].failed_proposal_count > 0
        /\ robot[a].backoff_until_step
               = step_count + Min2(2 ^ robot[a].failed_proposal_count, 50)
        /\ robot[a].backoff_until_step
               # step_count + Min2(2 ^ (robot[a].failed_proposal_count - 1), 30)


\* Steps a duel is given to settle: the proposal timeout and the four bus
\* deliveries of an election (prepare, promise, accept, accepted).
DuelBudget == PROPOSAL_TIMEOUT + 4

\* Agent a started an election in step s and is still its proposer.
StartedElection(a, s) ==
    /\ robot[a].paxos_handler.is_proposing
    /\ robot[a].proposal_start_step = s

\* In the current step agent a and another agent started elections for
\* distinct missions.
InDuel(a) ==
    /\ StartedElection(a, step_count)
    /\ \E b \in Robots \ {a} :
          /\ StartedElection(b, step_count)
          /\ robot[b].paxos_handler.proposed_mission
                 # robot[a].paxos_handler.proposed_mission

\* The inboxes of a step have been delivered and no agent has decided yet.
Delivered == phase = "collect_actions" /\ next_robot = 0

\* The handler of agent r once process_messages has worked through its inbox:
\* what the consensus block of decide_action is about to see.
Learned(r) == process_messages(SelfOf(r), step_count).paxos_handler

\* The value agent 0 latches in this step.
LatchedValue == Learned(0).final_value

\* In this step all agents latch consensus, and on one value.
AllLatchOne ==
    /\ Delivered
    /\ \E h0 \in {Learned(0)} :
          /\ h0.consensus_reached
          /\ \A r \in Robots \ {0} : \E h \in {Learned(r)} :
                 h.consensus_reached /\ h.final_value = h0.final_value

\* Some agents started elections for distinct missions in the current step.
Duel == \E a \in Robots : InDuel(a)

\* Agent a decides in this step and the election it holds ends in it.
ElectionEnds(a) ==
    /\ phase = "collect_actions" /\ next_robot = a
    /\ robot[a].paxos_handler.is_proposing
    /\ \/ ~robot'[a].paxos_handler.is_proposing
       \/ robot'[a].paxos_handler.proposal_id # robot[a].paxos_handler.proposal_id

\* The step puts agent a in backoff: one more failure, and no election before
\* a later step.
EntersBackoff(a) ==
    /\ robot'[a].state = "EXPLORING"
    /\ robot'[a].failed_proposal_count = robot[a].failed_proposal_count + 1
    /\ robot'[a].backoff_until_step > step_count

\* The election that ends for agent a in this step was started in the same
\* step as an election of another agent for a distinct mission, and the step
\* does not make a the leader of a mission: a is a proposer that lost.
DuelLoserEnds(a) ==
    /\ ElectionEnds(a)
    /\ robot'[a].current_mission.leader_id # a
    /\ \E b \in Robots \ {a} :
          /\ StartedElection(b, robot[a].proposal_start_step)
          /\ robot[b].paxos_handler.proposed_mission
                 # robot[a].paxos_handler.proposed_mission

\* C17: dueling proposers make progress. (1) When two agents of the team start
\* elections for distinct missions in the same step s, then within DuelBudget
\* steps there is a step in which all ten agents latch consensus on one
\* mission value and no agent but that mission's leader still holds an
\* election it started in step s; stated for the duels that start early enough
\* for the run to last until their deadline. (2) (every step) a proposer that
\* lost such a duel enters backoff in the step that ends its election.
C17_DuelSettlesWithinBudget ==
    /\ \A s \in 0..(DuelRunSteps - DuelBudget) :
          []((step_count = s /\ Duel)
                => <>(/\ step_count <= s + DuelBudget
                      /\ AllLatchOne
                      /\ \A x \in Robots :
                             StartedElection(x, s) => LatchedValue.leader_id = x))
    /\ [][\A a \in Robots : DuelLoserEnds(a) => EntersBackoff(a)]_vars

\* The PrepareRequests waiting in agent a's inbox.
PrepareRequestsFor(a) ==
    {incomming_messages[a][i] : i \in {j \in 1..Len(incomming_messages[a]) :
                                    incomming_messages[a][j].kind = "PrepareRequest"}}

\* C19: handling the same PrepareRequest twice in a row on an acceptor, at the
\* same step and position, is idempotent: promised_id after the second
\* delivery equals promised_id after the first, and the two replies (payload
\* and receiver) are identical.
C19_PrepareRequestIsIdempotent ==
    \A a \in Robots : \A m \in PrepareRequestsFor(a) :
        \A r1 \in {handle_prepare_request(robot[a].paxos_handler, m,
                                          step_count, pos[a])} :
        \A r2 \in {handle_prepare_request(r1.h, m, step_count, pos[a])} :
            /\ r2.h.promised_id = r1.h.promised_id
            /\ r2.out = r1.out
            /\ r2.to = r1.to

\* An acceptor whose promise is below a waiting PrepareRequest (the first
\* delivery moves promised_id and replies), and a proposer that a waiting
\* PrepareRequest of a higher id resets.
C19_Witness ==
    /\ \E a \in Robots : \E m \in PrepareRequestsFor(a) :
          /\ robot[a].paxos_handler.promised_id # NoId
          /\ IdLess(robot[a].paxos_handler.promised_id, m.paxos_id)
          /\ handle_prepare_request(robot[a].paxos_handler, m,
                                    step_count, pos[a]).out # NoMsg
    /\ \E a \in Robots : \E m \in PrepareRequestsFor(a) :
          /\ robot[a].paxos_handler.is_proposing
          /\ IdLess(robot[a].paxos_handler.proposal_id, m.paxos_id)

\* C20: in every reachable state an agent whose partner_id is set is not a
\* proposer with a pending election (is_proposing is false for it).
C20_PartneredAgentIsNotProposing ==
    \A a \in Robots :
        partner_id[a] # None => ~robot[a].paxos_handler.is_proposing


\* Agent a decides in this step and the decision counts a failed proposal.
ProposalFails(a) ==
    /\ phase = "collect_actions" /\ next_robot = a
    /\ robot'[a].failed_proposal_count = robot[a].failed_proposal_count + 1

\* Agent a decides in this step and starts an election.
StartsElection(a) ==
    /\ phase = "collect_actions" /\ next_robot = a
    /\ robot'[a].paxos_handler.proposal_counter
           # robot[a].paxos_handler.proposal_counter

\* C21: (every step) when a decision counts an agent's k-th failed proposal,
\* timed out or preempted alike, it sets backoff_until_step to the current
\* step + min(2^k, 50); and a decision that starts an election is made at a
\* step not earlier than the agent's backoff_until_step.
C21_BackoffIsExponentialInFailures ==
    [][\A a \in Robots :
          /\ ProposalFails(a) =>
                 robot'[a].backoff_until_step
                     = step_count + Min2(2 ^ robot'[a].failed_proposal_count, 50)
          /\ StartsElection(a) => step_count >= robot[a].backoff_until_step]_vars


\* Agent a as process_messages has it after the first i messages of its inbox.
Handled(a, i) ==
    ProcessRange([SelfOf(a) EXCEPT !.incomming_messages = <<>>],
                 incomming_messages[a], 1, i, step_count)

\* The AcceptRequests among the messages `after` has queued beyond those of
\* `before`.
AcceptRequestsSent(before, after) ==
    {after.outgoing_messages[k] :
        k \in {j \in (Len(before.outgoing_messages) + 1)..Len(after.outgoing_messages) :
                  after.outgoing_messages[j].message.kind = "AcceptRequest"}}

\* C22: while the deciding agent works through its inbox, a message makes it
\* send an AcceptRequest exactly when the message is a PrepareResponse for the
\* proposal it is holding and is the 6th promise collected for it; the
\* request is one broadcast carrying that proposal id, after which the agent
\* is no longer proposing (so no second request follows for the id); a
\* promise for another id, or arriving while the agent is not proposing,
\* changes nothing; a proposer never holds more than 5 promises.
C22_AcceptRequestOnSixthPromise ==
    /\ \A a \in Robots :
           robot[a].paxos_handler.is_proposing =>
               Len(robot[a].paxos_handler.promises_recieved) <= 5
    /\ (phase = "collect_actions" /\ next_robot \in Robots) =>
          \A i \in 1..Len(incomming_messages[next_robot]) :
             \A before \in {Handled(next_robot, i - 1)} :
             \A after \in {Handled(next_robot, i)} :
                LET m == incomming_messages[next_robot][i]
                    h == before.paxos_handler
                    matching == /\ m.kind = "PrepareResponse"
                                /\ h.is_proposing
                                /\ m.paxos_id = h.proposal_id
                    sent == AcceptRequestsSent(before, after)
                IN  /\ (m.kind = "PrepareResponse" /\ ~matching) => after = before
                    /\ matching =>
                           after.paxos_handler.promises_recieved
                               = Append(h.promises_recieved, m)
                    /\ sent # {} <=> (matching /\ Len(h.promises_recieved) + 1 > 5)
                    /\ sent # {} =>
                           /\ Cardinality(sent) = 1
                           /\ Len(after.outgoing_messages)
                                  = Len(before.outgoing_messages) + 1
                           /\ \A o \in sent : /\ o.to = None
                                               /\ o.message.paxos_id = h.proposal_id
                                               /\ o.message.sender_id = next_robot
                           /\ ~after.paxos_handler.is_proposing

\* The deciding agent's inbox holds the 6th promise for its proposal and, after
\* it, a 7th for the same proposal id.
C22_Witness ==
    /\ phase = "collect_actions" /\ next_robot \in Robots
    /\ \E i, k \in 1..Len(incomming_messages[next_robot]) :
          /\ i < k
          /\ incomming_messages[next_robot][i].kind = "PrepareResponse"
          /\ incomming_messages[next_robot][k].kind = "PrepareResponse"
          /\ incomming_messages[next_robot][k].paxos_id
                 = incomming_messages[next_robot][i].paxos_id
          /\ AcceptRequestsSent(Handled(next_robot, i - 1), Handled(next_robot, i)) # {}


\* C23: whenever a message of the deciding agent's inbox makes it send an
\* AcceptRequest, the follower the request names sent one of the promises
\* collected, no promise collected has a lower follower_bid than that
\* sender's, and no promise of the same bid has a lower sender_id.
C23_FollowerHasLowestBid ==
    (phase = "collect_actions" /\ next_robot \in Robots) =>
        \A i \in {j \in 1..Len(incomming_messages[next_robot]) :
                     incomming_messages[next_robot][j].kind = "PrepareResponse"} :
           \A before \in {Handled(next_robot, i - 1)} :
           \A after \in {Handled(next_robot, i)} :
           \A o \in AcceptRequestsSent(before, after) :
              LET promises == after.paxos_handler.promises_recieved
                  follower_id == o.message.mission.follower_id
              IN  \E k \in 1..Len(promises) :
                     /\ promises[k].sender_id = follower_id
                     /\ \A l \in 1..Len(promises) :
                            \/ promises[k].follower_bid < promises[l].follower_bid
                            \/ /\ promises[k].follower_bid = promises[l].follower_bid
                               /\ promises[k].sender_id <= promises[l].sender_id

\* The deciding agent sends an AcceptRequest on promises of which two share
\* the lowest bid.
C23_Witness ==
    /\ phase = "collect_actions" /\ next_robot \in Robots
    /\ \E i \in {j \in 1..Len(incomming_messages[next_robot]) :
                     incomming_messages[next_robot][j].kind = "PrepareResponse"} :
          \E after \in {Handled(next_robot, i)} :
             /\ AcceptRequestsSent(Handled(next_robot, i - 1), after) # {}
             /\ \E k, l \in 1..Len(after.paxos_handler.promises_recieved) :
                   LET promises == after.paxos_handler.promises_recieved IN
                   /\ k # l
                   /\ promises[k].follower_bid = promises[l].follower_bid
                   /\ \A n \in 1..Len(promises) :
                          promises[k].follower_bid <= promises[n].follower_bid


\* Handling m, the agent promised m's id: promised_id is the id and one reply,
\* a PrepareResponse for the id, is queued for the sender.
Promised(before, after, m) ==
    /\ after.paxos_handler.promised_id = m.paxos_id
    /\ Len(after.outgoing_messages) = Len(before.outgoing_messages) + 1
    /\ \E o \in {after.outgoing_messages[Len(after.outgoing_messages)]} :
          /\ o.to = m.sender_id
          /\ o.message.kind = "PrepareResponse"
          /\ o.message.paxos_id = m.paxos_id
          /\ o.message.sender_id = before.robot_id

\* The agent holds no proposal: the state reset_proposer_state leaves.
NotProposing(self) ==
    /\ ~self.paxos_handler.is_proposing
    /\ self.paxos_handler.proposal_id = NoId
    /\ self.paxos_handler.proposed_mission = NoMission
    /\ self.paxos_handler.promises_recieved = <<>>

\* Agent `before` is proposing with an id lower than m's.
Preempts(before, m) ==
    /\ m.kind = "PrepareRequest"
    /\ before.paxos_handler.is_proposing
    /\ IdLess(before.paxos_handler.proposal_id, m.paxos_id)

\* m's id is lower than the id the agent has promised.
BelowPromise(before, m) ==
    /\ before.paxos_handler.promised_id # NoId
    /\ IdLess(m.paxos_id, before.paxos_handler.promised_id)

\* What the claim says of an acceptor apart from preemption: a PrepareRequest
\* or an AcceptRequest below the promise leaves the agent as it was (no
\* reply, nothing accepted), and after a preemption at id p the agent sends no
\* AcceptRequest carrying p in the rest of its inbox.
HoldsPromise(a, i, before, after) ==
    LET m == incomming_messages[a][i] IN
    /\ (m.kind \in {"PrepareRequest", "AcceptRequest"} /\ BelowPromise(before, m))
           => after = before
    /\ (Preempts(before, m) /\ ~BelowPromise(before, m)) =>
           \A o \in AcceptRequestsSent(after, Handled(a, Len(incomming_messages[a]))) :
              o.message.paxos_id # before.paxos_handler.proposal_id

\* No AcceptRequest carrying the id of a proposal still being proposed waits
\* in an inbox, and no acceptor has accepted such an id.
NoAcceptForPending ==
    \A a \in Robots :
       robot[a].paxos_handler.is_proposing =>
          \A x \in Robots :
             /\ robot[x].paxos_handler.accepted_id # robot[a].paxos_handler.proposal_id
             /\ \A k \in 1..Len(incomming_messages[x]) :
                    incomming_messages[x][k].kind = "AcceptRequest" =>
                        incomming_messages[x][k].paxos_id
                            # robot[a].paxos_handler.proposal_id

\* C24 as stated: whenever the deciding agent, proposing with id p, handles a
\* PrepareRequest with an id greater than p, it stops proposing (its proposer
\* state is reset) and promises the higher id; an AcceptRequest carrying p is
\* never sent or accepted afterwards, and a request below the promise changes
\* nothing and gets no reply.
C24_PreemptedByEveryHigherId ==
    /\ NoAcceptForPending
    /\ (phase = "collect_actions" /\ next_robot \in Robots) =>
          \A i \in {j \in 1..Len(incomming_messages[next_robot]) :
                       incomming_messages[next_robot][j].kind
                           \in {"PrepareRequest", "AcceptRequest"}} :
             \A before \in {Handled(next_robot, i - 1)} :
             \A after \in {Handled(next_robot, i)} :
                /\ HoldsPromise(next_robot, i, before, after)
                /\ Preempts(before, incomming_messages[next_robot][i]) =>
                       /\ NotProposing(after)
                       /\ Promised(before, after, incomming_messages[next_robot][i])

\* C24, amended: the same for a PrepareRequest with an id greater than p that
\* is not lower than the id the agent has promised; a request below the
\* promise leaves a proposer proposing.
C24_PreemptedByHigherIdNotBelowPromise ==
    /\ NoAcceptForPending
    /\ (phase = "collect_actions" /\ next_robot \in Robots) =>
          \A i \in {j \in 1..Len(incomming_messages[next_robot]) :
                       incomming_messages[next_robot][j].kind
                           \in {"PrepareRequest", "AcceptRequest"}} :
             \A before \in {Handled(next_robot, i - 1)} :
             \A after \in {Handled(next_robot, i)} :
                /\ HoldsPromise(next_robot, i, before, after)
                /\ (/\ Preempts(before, incomming_messages[next_robot][i])
                    /\ ~BelowPromise(before, incomming_messages[next_robot][i])) =>
                       /\ NotProposing(after)
                       /\ Promised(before, after, incomming_messages[next_robot][i])

\* The deciding agent's inbox preempts it, and later in the same inbox holds
\* a PrepareRequest below the promise it has made by then.
C24_Witness ==
    /\ phase = "collect_actions" /\ next_robot \in Robots
    /\ \E i, k \in {j \in 1..Len(incomming_messages[next_robot]) :
                       incomming_messages[next_robot][j].kind = "PrepareRequest"} :
          /\ i < k
          /\ \E before \in {Handled(next_robot, i - 1)} :
                /\ Preempts(before, incomming_messages[next_robot][i])
                /\ ~BelowPromise(before, incomming_messages[next_robot][i])
          /\ BelowPromise(Handled(next_robot, k - 1), incomming_messages[next_robot][k])


\* The deciding agent as decide_action has it on entry to the consensus
\* block: messages processed, observations recorded and queued.
AtConsensusBlock(a) ==
    LET s1 == process_messages(SelfOf(a), step_count)
        s2 == [s1 EXCEPT !.sensed_map = UpdateSensedTiles(@, step_count, observe(a))]
    IN  Send(s2, None, ObservationsMessage(a, step_count, observe(a)))

\* The agent observes consensus on a mission that names it.
ObservesOwnMission(self) ==
    /\ self.err = "none"
    /\ self.paxos_handler.consensus_reached
    /\ self.paxos_handler.final_value # NoMission
    /\ self.robot_id \in {self.paxos_handler.final_value.leader_id,
                           self.paxos_handler.final_value.follower_id}

\* The agent has adopted `mission`: it is its current mission, it is
\* EXECUTING and holds no proposal.
Adopted(self, mission) ==
    /\ self.current_mission = mission
    /\ self.state = "EXECUTING"
    /\ ~self.paxos_handler.is_proposing

\* C25 as stated: a deciding agent that observes consensus on a mission
\* naming it while EXPLORING, PROPOSING or EXECUTING ends the step with that
\* mission, EXECUTING, with no pending proposal; in AWAITING_PARTNER or
\* DELIVERING the observation leaves state and current mission unchanged.
C25_NamedAgentEndsStepExecuting ==
    (phase = "collect_actions" /\ next_robot \in Robots) =>
       \A before \in {AtConsensusBlock(next_robot)} :
          ObservesOwnMission(before) =>
             IF before.state \in {"AWAITING_PARTNER", "DELIVERING"}
             THEN \A after \in {ConsensusBlock(before)} :
                     /\ after.state = before.state
                     /\ after.current_mission = before.current_mission
             ELSE Adopted(decide_action(SelfOf(next_robot), step_count,
                                        observe(next_robot)).self,
                          before.paxos_handler.final_value)

\* C25, amended: the same, except that an agent already standing on the
\* mission's target tile ends the step in AWAITING_PARTNER (the EXECUTING
\* block of the same decision finds the path empty).
C25_NamedAgentEndsStepOnMission ==
    (phase = "collect_actions" /\ next_robot \in Robots) =>
       \A before \in {AtConsensusBlock(next_robot)} :
          ObservesOwnMission(before) =>
             IF before.state \in {"AWAITING_PARTNER", "DELIVERING"}
             THEN \A after \in {ConsensusBlock(before)} :
                     /\ after.state = before.state
                     /\ after.current_mission = before.current_mission
             ELSE \A after \in {decide_action(SelfOf(next_robot), step_count,
                                              observe(next_robot)).self} :
                     IF before.pos = before.paxos_handler.final_value.target_tile
                     THEN Adopted([after EXCEPT !.state = "EXECUTING"],
                                  before.paxos_handler.final_value)
                          /\ after.state = "AWAITING_PARTNER"
                     ELSE Adopted(after, before.paxos_handler.final_value)

\* The deciding agent, PROPOSING away from the target tile, observes
\* consensus on a mission that names it.
C25_Witness ==
    /\ phase = "collect_actions" /\ next_robot \in Robots
    /\ \E before \in {AtConsensusBlock(next_robot)} :
          /\ ObservesOwnMission(before)
          /\ before.state = "PROPOSING"
          /\ before.paxos_handler.is_proposing
          /\ before.pos # before.paxos_handler.final_value.target_tile

\* The agent observes consensus on a mission that does not name it.
ObservesOthersMission(self) ==
    /\ self.err = "none"
    /\ self.paxos_handler.consensus_reached
    /\ \/ self.paxos_handler.final_value = NoMission
       \/ self.robot_id \notin {self.paxos_handler.final_value.leader_id,
                                 self.paxos_handler.final_value.follower_id}

\* C26: a deciding agent that observes consensus on a mission naming it
\* neither as leader nor as follower leaves the consensus block with the
\* state and the current mission it entered with, an EXECUTING agent too.
C26_OthersMissionIsDiscarded ==
    (phase = "collect_actions" /\ next_robot \in Robots) =>
       \A before \in {AtConsensusBlock(next_robot)} :
          ObservesOthersMission(before) =>
             \A after \in {ConsensusBlock(before)} :
                /\ after.state = before.state
                /\ after.current_mission = before.current_mission

\* The value the wait timer is initialised to (src/robot.py:455).
WaitTimerStart == 500

\* The agent's decision of this step takes it into AWAITING_PARTNER.
EntersAwaitingPartner(a) ==
    /\ robot[a].state # "AWAITING_PARTNER"
    /\ robot'[a].state = "AWAITING_PARTNER"

\* The timer as the agent's next decision leaves it, if that decision is
\* taken in AWAITING_PARTNER.
TimerAfterWait(a) ==
    DecideAwaitingPartner(SelfOf(a), step_count).self.timeout_counter

\* C27: (every step) an agent that enters AWAITING_PARTNER has the full
\* timer after its first wait there, on the first entry and on every later
\* one; (always) a wait with a running timer decrements it by one, and a
\* wait queues MissionAbort only when the timer has run down to 0.
C27_TimerRestartsOnEveryEntry ==
    /\ [][\A a \in Robots :
             EntersAwaitingPartner(a) => TimerAfterWait(a)' = WaitTimerStart]_vars
    /\ [](\A a \in Robots :
             robot[a].state = "AWAITING_PARTNER" =>
                \A after \in {DecideAwaitingPartner(SelfOf(a), step_count).self} :
                   /\ robot[a].timeout_counter \in 1..WaitTimerStart =>
                          after.timeout_counter = robot[a].timeout_counter - 1
                   /\ (\E k \in 1..Len(after.outgoing_messages) :
                          /\ k > Len(outgoing_messages[a])
                          /\ after.outgoing_messages[k].message.kind
                                 = "MissionAbortMessage") =>
                          robot[a].timeout_counter = 0)

\* The deciding agent as decide_action has it where it branches on the FSM
\* state: after the consensus block and the PROPOSING block.
AtStateBranch(a) ==
    ProposingBlock(ConsensusBlock(AtConsensusBlock(a)), step_count)

\* `after` has queued one GoldConsumed for position p on top of what `before`
\* had queued.
BroadcastsGoldConsumed(before, after, p) ==
    Cardinality({k \in 1..Len(after.outgoing_messages) :
                    /\ k > Len(before.outgoing_messages)
                    /\ after.outgoing_messages[k].to = None
                    /\ after.outgoing_messages[k].message.kind = "GoldConsumedMessage"
                    /\ after.outgoing_messages[k].message.consumed = p}) = 1

\* C28: a deciding agent that reaches the branch on its FSM state in
\* AWAITING_PARTNER with a partner_id set by the controller (any teammate's
\* id, 0 included) ends the decision in DELIVERING, having broadcast
\* GoldConsumed for its position, with the rest of a path to its team's
\* deposit tile saved and the path's first action returned.
C28_PartneredAgentStartsDelivering ==
    (phase = "collect_actions" /\ next_robot \in Robots) =>
       \A before \in {AtStateBranch(next_robot)} :
          (/\ before.err = "none"
           /\ before.state = "AWAITING_PARTNER"
           /\ before.partner_id # None) =>
             \A d \in {DecideByState(before, step_count)} :
                /\ d.self.err = "none"
                /\ d.self.state = "DELIVERING"
                /\ BroadcastsGoldConsumed(before, d.self, before.pos)
                /\ <<d.action>> \o d.self.saved_actions
                       = pathfind(before, before.deposit_pos)

\* In world w the pair (a, b) stands where and as it stood, still partnered.
PairUntouched(w, a, b) ==
    /\ w.pos[a] = pos[a] /\ w.pos[b] = pos[b]
    /\ w.direction[a] = direction[a] /\ w.direction[b] = direction[b]
    /\ w.partner_id[a] = b /\ w.partner_id[b] = a

RECURSIVE PairPickupSeqs(_, _, _)
\* The action tuples, in robot order from r on, in which the members a and b
\* return anything and every other robot waits, requests a pickup or moves.
PairPickupSeqs(r, a, b) ==
    IF r \notin Robots THEN {<<>>}
    ELSE {<<x>> \o rest :
             x \in IF r \in {a, b} THEN ActionChoices(r)
                   ELSE {WaitAction(r), PickupAction(r, pos[r]), MoveAction(r)},
             rest \in PairPickupSeqs(r + 1, a, b)}

\* C29 as stated: whenever a member of a partnership returns a Pickup, the
\* step leaves both members where and as they were, still partnered, and
\* every tile's gold_count as it was.
C29_PairPickupChangesNoGold ==
    \A ab \in Pairs : \A actions \in PairPickupSeqs(0, ab[1], ab[2]) :
        AnyPickup(actions, ab[1], ab[2]) =>
            \A w \in {RunActions(World, actions)} :
                /\ PairUntouched(w, ab[1], ab[2])
                /\ \A p \in Positions : w.tiles[p].gold_count = tiles[p].gold_count

\* C29, amended: the step leaves both members where and as they were, still
\* partnered, and its whole result is that of the same step with the two
\* members waiting: the gold on every tile is what the other robots' actions
\* make it.
C29_PairPickupIsDropped ==
    \A ab \in Pairs : \A actions \in PairPickupSeqs(0, ab[1], ab[2]) :
        AnyPickup(actions, ab[1], ab[2]) =>
            \A w \in {RunActions(World, actions)} :
                /\ PairUntouched(w, ab[1], ab[2])
                /\ w = RunActions(World, [actions EXCEPT ![ab[1] + 1] = WaitAction(ab[1]),
                                                         ![ab[2] + 1] = WaitAction(ab[2])])

\* A pair stands on a tile with gold and one member returns a Pickup while
\* the other moves on.
C29_Witness ==
    \E ab \in Pairs :
       /\ tiles[pos[ab[1]]].gold_count > 0
       /\ \E actions \in PairPickupSeqs(0, ab[1], ab[2]) :
             /\ actions[ab[1] + 1].type = "PickupAction"
             /\ actions[ab[2] + 1].type = "MoveAction"
             /\ PairUntouched(RunActions(World, actions), ab[1], ab[2])

\* The agents the deposit handler has just unpartnered: DELIVERING, without a
\* partner, on their team's deposit tile (one decision later they are no
\* longer DELIVERING).
JustDeposited ==
    {a \in Robots : /\ robot[a].state = "DELIVERING"
                    /\ partner_id[a] = None
                    /\ pos[a] = SelfOf(a).deposit_pos}

\* The decision agent a takes in this step.
DecisionOf(a) == decide_action(SelfOf(a), step_count, observe(a)).self

\* `after` has queued a broadcast of the given kind on top of what agent a
\* had queued.
Broadcasts(a, after, kind) ==
    \E k \in 1..Len(after.outgoing_messages) :
       /\ k > Len(outgoing_messages[a])
       /\ after.outgoing_messages[k].to = None
       /\ after.outgoing_messages[k].message.kind = kind

\* C30: at the start of the decisions of a step, the agents that deposited
\* in the step before all end their decision in EXPLORING, one of every two
\* of them broadcasts MissionComplete, and an agent that does is the leader
\* of the mission it holds; a deciding agent that reaches the branch on its
\* FSM state in DELIVERING, unpartnered and away from its deposit tile,
\* broadcasts MissionAbort and ends the decision in EXPLORING.
C30_DepositIsAnnouncedOnceByLeader ==
    /\ (phase = "collect_actions" /\ next_robot = 0) =>
          /\ \A a \in JustDeposited : DecisionOf(a).state = "EXPLORING"
          /\ 2 * Cardinality({a \in JustDeposited :
                                 Broadcasts(a, DecisionOf(a), "MissionCompleteMessage")})
                = Cardinality(JustDeposited)
          /\ \A a \in JustDeposited :
                Broadcasts(a, DecisionOf(a), "MissionCompleteMessage") =>
                    /\ robot[a].current_mission # NoMission
                    /\ robot[a].current_mission.leader_id = a
    /\ (phase = "collect_actions" /\ next_robot \in Robots) =>
          \A before \in {AtStateBranch(next_robot)} :
             (/\ before.err = "none"
              /\ before.state = "DELIVERING"
              /\ before.partner_id = None
              /\ before.pos # before.deposit_pos) =>
                \A after \in {DecideByState(before, step_count).self} :
                   /\ after.state = "EXPLORING"
                   /\ Broadcasts(next_robot, after, "MissionAbortMessage")

\* The in-grid cells of the fan in front of `at` in the sense of Move: i
\* steps along get_pos_to_add(facing), i = 1, 2, and up to i cells to
\* either side.
ForwardFan(at, facing) ==
    LET forward == get_pos_to_add(facing) IN
    {c \in {<<at[1] + i * forward[1] + j * forward[2],
              at[2] + i * forward[2] + j * forward[1]>> :
                 i \in 1..2, j \in -2..2} :
        /\ is_valid_position(c)
        /\ Abs(c[1] - at[1]) + Abs(c[2] - at[2]) <= 2 * Max2(Abs((c[1] - at[1]) * forward[1]),
                                                            Abs((c[2] - at[2]) * forward[2]))}

\* C31: every agent observes exactly the in-grid cells of the fan in front of
\* it, front being the way a Move with its facing takes it.
C31_ObservesInFrontOfMove ==
    \A a \in Robots :
       {observe(a)[k].pos : k \in 1..Len(observe(a))} = ForwardFan(pos[a], direction[a])

RECURSIVE Walk(_, _, _)
\* Where the controller takes an agent at `at`, facing `facing`, that returns
\* the actions of `path` one per step with none dropped: a Move adds
\* get_pos_to_add(facing), a Turn sets the facing; `inside` tells whether
\* every Move stayed on the grid.
Walk(at, facing, path) ==
    IF path = <<>> THEN [pos |-> at, direction |-> facing, inside |-> TRUE]
    ELSE IF Head(path).type = "TurnAction"
    THEN Walk(at, Head(path).new_direction, Tail(path))
    ELSE IF Head(path).type = "MoveAction"
    THEN LET to == <<at[1] + get_pos_to_add(facing)[1], at[2] + get_pos_to_add(facing)[2]>>
             rest == Walk(to, facing, Tail(path))
         IN  [rest EXCEPT !.inside = @ /\ is_valid_position(to)]
    ELSE Walk(at, facing, Tail(path))

\* The number of actions of the given type in path.
CountType(path, type) == Cardinality({k \in 1..Len(path) : path[k].type = type})

\* C32: for every agent, as it stands and faces, and every target on the
\* grid, the actions pathfind returns, executed in order, end on the target;
\* they hold |dx| + |dy| Moves and at most two Turns, nothing else, and no
\* Move leaves the grid.
C32_PathEndsOnTarget ==
    \A a \in Robots : \A target \in Positions :
       \A path \in {pathfind([robot_id |-> a, pos |-> pos[a],
                                direction |-> direction[a]], target)} :
          /\ \A end \in {Walk(pos[a], direction[a], path)} :
                 end.pos = target /\ end.inside
          /\ CountType(path, "MoveAction") = manhattan_distance(pos[a], target)
          /\ CountType(path, "TurnAction") <= 2
          /\ CountType(path, "MoveAction") + CountType(path, "TurnAction") = Len(path)

\* Some agent faces away from a target that lies off its row and its column:
\* the path to it turns twice.
C32_Witness ==
    \E a \in Robots : \E target \in Positions :
       /\ target[1] # pos[a][1] /\ target[2] # pos[a][2]
       /\ CountType(pathfind(SelfOf(a), target), "TurnAction") = 2
       /\ Walk(pos[a], direction[a], pathfind(SelfOf(a), target)).pos = target

\* The oldest record find_best_mission_from_map still uses (src/robot.py:231).
SensedMaxAge == 100

\* C33: a deciding agent that reaches the branch on its FSM state in
\* EXPLORING and starts an election there proposes a tile that its sensed
\* map, as its messages and observations of this step have left it, records
\* with gold_count > 0 and a step at most 100 steps old.
C33_ProposedTileHasSensedGold ==
    (phase = "collect_actions" /\ next_robot \in Robots) =>
       \A before \in {AtStateBranch(next_robot)} :
          (before.err = "none" /\ before.state = "EXPLORING") =>
             \A after \in {DecideExploring(before, step_count).self} :
                after.state = "PROPOSING" =>
                   \A tile \in {after.paxos_handler.proposed_mission.target_tile} :
                      /\ SensedHas(before.sensed_map, tile)
                      /\ SensedGet(before.sensed_map, tile).gold_count > 0
                      /\ step_count - SensedGet(before.sensed_map, tile).step <= SensedMaxAge


\* Decisions within which a waiting pair is expected to be partnered: one for
\* the leader's Turn message, one for its delivery, one for the follower's
\* turn, one for the two Pickup requests, and two to spare.
PairingBound == 6

\* Decisions the agent has taken in AWAITING_PARTNER since its wait timer
\* was started.
WaitedSteps(a) ==
    IF robot[a].timeout_counter = None THEN 0
    ELSE WaitTimerStart - robot[a].timeout_counter

\* Leader l and follower f of one chosen mission are both in
\* AWAITING_PARTNER on its target tile, unpartnered, the tile holds gold and
\* no other agent stands on the tile.
PairWaits(l, f) ==
    /\ l # f
    /\ robot[l].state = "AWAITING_PARTNER" /\ robot[f].state = "AWAITING_PARTNER"
    /\ robot[l].current_mission # NoMission
    /\ robot[f].current_mission = robot[l].current_mission
    /\ robot[l].current_mission.leader_id = l
    /\ robot[l].current_mission.follower_id = f
    /\ pos[l] = robot[l].current_mission.target_tile
    /\ pos[f] = pos[l]
    /\ tiles[pos[l]].gold_count >= 1
    /\ partner_id[l] = None /\ partner_id[f] = None
    /\ \A c \in Robots \ {l, f} : pos[c] # pos[l]

\* C34: the leader and the follower of a chosen mission that both wait in
\* AWAITING_PARTNER on the target tile, with gold on it and nobody else
\* there, are partnered within PairingBound decisions, whatever they face:
\* while they are still unpartnered, at least one of them has waited for
\* fewer than PairingBound decisions.
C34_WaitingPairIsPartneredSoon ==
    err = "none" =>
       \A l \in Robots : \A f \in Robots :
          PairWaits(l, f) =>
             \/ WaitedSteps(l) < PairingBound
             \/ WaitedSteps(f) < PairingBound


\* C35: no run of the Robot agents ends in the error a deposit tile raises
\* when take() or add() is called on it: no validated pair pickup and no
\* pair's drop happens on a deposit tile.
C35_NoTakeOrAddOnDepositTile == err # "NotImplementedError"


\* The deciding agent collects the promise that completes a majority while
\* it works through its inbox in this step: it broadcasts an AcceptRequest.
ReachesMajority(a) ==
    \E handled \in {process_messages(SelfOf(a), step_count)} :
       handled.err = "none" /\ Broadcasts(a, handled, "AcceptRequest")

\* C36: a deciding agent whose election reaches a promise majority in this
\* step, so that it broadcasts its AcceptRequest, ends the decision with its
\* failure counter and its backoff_until_step unchanged and with the
\* proposal id of that AcceptRequest still its own.
C36_MajorityProposerIsNotFailed ==
    (phase = "collect_actions" /\ next_robot \in Robots /\ err = "none") =>
       \A a \in {next_robot} :
          ReachesMajority(a) =>
             \A after \in {DecisionOf(a)} :
                /\ after.failed_proposal_count = robot[a].failed_proposal_count
                /\ after.backoff_until_step = robot[a].backoff_until_step
                /\ after.paxos_handler.proposal_id = robot[a].paxos_handler.proposal_id


\* The MissionComplete and MissionAbort messages waiting in agent a's inbox
\* that were sent by an agent other than a and its partner.
OutsideMissionEnds(a) ==
    {k \in 1..Len(incomming_messages[a]) :
        /\ incomming_messages[a][k].kind \in {"MissionCompleteMessage", "MissionAbortMessage"}
        /\ incomming_messages[a][k].sender_id \notin {a, partner_id[a]}}

\* C37: a partnered agent in DELIVERING that finds a MissionComplete or a
\* MissionAbort of an agent outside its pair in its inbox is still in
\* DELIVERING, with the mission and the saved path it had, once it has
\* processed its messages.
C37_OutsideMissionEndLeavesPairDelivering ==
    (phase = "collect_actions" /\ next_robot \in Robots /\ err = "none") =>
       \A a \in {next_robot} :
          (/\ partner_id[a] # None
           /\ robot[a].state = "DELIVERING"
           /\ OutsideMissionEnds(a) # {}) =>
             \A handled \in {process_messages(SelfOf(a), step_count)} :
                /\ handled.state = "DELIVERING"
                /\ handled.current_mission = robot[a].current_mission
                /\ handled.saved_actions = robot[a].saved_actions

====
